---------------------------- MODULE Spec2Model ----------------------------
(***************************************************************************)
(* Model of the enrichment engine of solanamyadmin                         *)
(* (src/src/lib/utils/enricher.ts).                                        *)
(*                                                                         *)
(* Strings on which the code works character by character are sequences   *)
(* of one-character strings.  A JavaScript value is a tuple whose first    *)
(* element is its typeof-like tag:                                         *)
(*   <<"string", chars>>  <<"number", n>>  <<"boolean", b>>  <<"null">>     *)
(*   <<"undefined">>  <<"array", seq of values>>                           *)
(*   <<"object", seq of <<key, value>> >>     (own properties, in order)   *)
(* A Map<string, EnrichedPubkey> is a function from keys to object values. *)
(***************************************************************************)
EXTENDS Integers, Sequences, FiniteSets, TLC

VARIABLES
    \* ---- inject / strip on one tree
    tree,        \* the decoded input tree T
    emap,        \* the enrichment map M handed to injectEnrichment
    injected,    \* injectEnrichment(T, M)
    stripped,    \* stripEnrichment(injected)
    reinjected,  \* injectEnrichment(injected, M)
    tstage,      \* which of the results above have been computed
    \* ---- the classification of one resolved account
    cOwner,      \* info.owner
    cBlob,       \* the account's bytes at the resolver (<<>> when cData is not their encoding)
    cValid,      \* whether cData is the base64 encoding of cBlob
    cData,       \* info.data[0]
    cKind,       \* "tokenAccount", "mint" or "none" once classified
    cstage,      \* "input", "classified" or "threw"
    \* ---- one call of fetchEnrichmentMap
    fpc,           \* "idle", "awaitResolver", "awaitMetadata", "returned", "threw"
    fN,            \* pubkeys holds the first fN addresses of AllKeys
    fUseLabel,     \* whether getLabel was passed
    fI,            \* i of the loop of line 98
    fTokenAccounts,\* tokenAccounts of the batch in progress
    fMintAccounts, \* mintAccounts of the batch in progress
    fApiChunks,    \* apiChunks of the batch in progress
    fK,            \* which of apiChunks the loop of line 208 is at (from 1)
    fMintInfoMap,  \* mintInfoMap of the batch in progress
    fMap,          \* enrichmentMap
    fResult,       \* the map the call resolved to
    fCalls,        \* history: every external call issued, in order
    fInflight,     \* history: positions in fCalls of the calls not yet settled
    fFailed,       \* history: positions in fCalls of the calls that failed
    fLast,         \* history: how the last settled call ended
    \* ---- the balance of one holding record
    aOwner,      \* info.owner
    aMintBytes,  \* the 32 bytes at offset 0 of the record
    aAmountBytes,\* the 8 bytes at offset 64 of the record
    aRest,       \* the value of every other byte of the record
    aData,       \* info.data[0]
    aMeta,       \* what the metadata response holds for the mint
    aMint,       \* mint of line 178
    aAmount,     \* amount of line 181
    aEntry,      \* the entry of lines 258-269
    astage,      \* "input", "decoded" or "enriched"
    \* ---- extractPubkeys on one tree
    xTree,       \* the decoded tree handed to extractPubkeys
    xSet,        \* extractPubkeys(xTree)
    xAgain,      \* extractPubkeys(Array.from(xSet))
    xstage,       \* "input", "extracted" or "again"
    \* ---- inject / strip on containers with identity
    hHeap,       \* the arrays and objects that exist, by identity (position)
    hMap,        \* the Map handed to injectEnrichment: key -> reference to its annotation
    hRoot,       \* the input tree: a scalar or a reference
    hInjected,   \* injectEnrichment(hRoot, hMap)
    hStripped,   \* stripEnrichment(hInjected)
    hstage,       \* "input", "injected" or "stripped"
    \* ---- the hook useAccountData
    dPubkey,        \* pubkey of the current render (NoPubkey when null)
    dAccountType,   \* accountType of the current render (NoType when null)
    dCoder,         \* whether BorshAccountsCoder could be created from the idl
    dData,          \* data
    dHistory,       \* history
    dLoading,       \* loading
    dHistoryLoading,\* historyLoading
    dError,         \* error
    dEnrichmentMap, \* enrichmentMap
    dDetectedType,  \* detectedType
    dRuns,          \* the calls of fetchAccountData waiting at an await
    dHistoryRuns,   \* the calls of fetchHistory waiting at an await
    dStarted,       \* history: how many times the inputs changed or refetch was called
    dstage,          \* "idle" or "mounted"
    \* ---- the hook useAccounts
    aType,           \* the accountType of the current render, or "none"
    aSearch,         \* the trimmed search of the current render
    aAccounts,       \* accounts
    aLoading,        \* loading
    aError,          \* error
    aIsSearching,    \* isSearching
    aCache,          \* cacheRef.current: the account types it has a list for
    aDebounce,       \* the pending timer of debounceRef: the inputs of its render
    aLatestSearch,   \* latestSearchRef.current
    aRuns,           \* the calls of fetchAccounts that are waiting
    aStarted,        \* how many times the inputs changed or refetch was called
    acstage,          \* "idle", "rendered", "mounted"
    \* ---- the page ExplorerContent
    pSelectedAccountType,  \* selectedAccountType, or "null"
    pSelectedPubkey,       \* selectedPubkey, or "null"
    pSelectedViewId,       \* selectedViewId, or "null"
    pSearchQuery,          \* searchQuery
    pCurrentPage,          \* currentPage
    pViews,                \* views of useViews
    pstage                 \* "idle", "shown"

treeVars == <<tree, emap, injected, stripped, reinjected, tstage>>
classVars == <<cOwner, cBlob, cValid, cData, cKind, cstage>>

fetchVars == <<fpc, fN, fUseLabel, fI, fTokenAccounts, fMintAccounts, fApiChunks,
               fK, fMintInfoMap, fMap, fResult, fCalls, fInflight, fFailed, fLast>>

amountVars == <<aOwner, aMintBytes, aAmountBytes, aRest, aData, aMeta, aMint,
                aAmount, aEntry, astage>>

extractVars == <<xTree, xSet, xAgain, xstage>>

heapVars == <<hHeap, hMap, hRoot, hInjected, hStripped, hstage>>

dataVars == <<dPubkey, dAccountType, dCoder, dData, dHistory, dLoading, dHistoryLoading, dError, dEnrichmentMap, dDetectedType, dRuns, dHistoryRuns, dStarted, dstage>>

accountsVars == <<aType, aSearch, aAccounts, aLoading, aError, aIsSearching, aCache, aDebounce, aLatestSearch, aRuns, aStarted, acstage>>

pageVars == <<pSelectedAccountType, pSelectedPubkey, pSelectedViewId, pSearchQuery, pCurrentPage, pViews, pstage>>

vars == <<treeVars, classVars, fetchVars, amountVars, extractVars, heapVars, dataVars, accountsVars, pageVars>>

-----------------------------------------------------------------------------
(* Bounds of the model *)

\* Nesting depth of the containers wrapped around a leaf of a generated tree.
MaxDepth == 2

\* Largest byte length of an account blob handed to the classifier.
MaxBlobLen == 167

\* Largest number of addresses handed to fetchEnrichmentMap.
MaxKeys == 201

-----------------------------------------------------------------------------
(* JavaScript values *)

Str(s) == <<"string", s>>
Num(n) == <<"number", n>>
Bool(b) == <<"boolean", b>>
Null == <<"null">>
Undefined == <<"undefined">>
Arr(a) == <<"array", a>>
Obj(fields) == <<"object", fields>>

TypeOf(v) == v[1]
IsString(v) == TypeOf(v) = "string"
IsArray(v) == TypeOf(v) = "array"
\* typeof v === "object" && v !== null && !Array.isArray(v)
IsPlainObject(v) == TypeOf(v) = "object"

\* key in obj
HasKey(obj, key) == \E i \in 1..Len(obj[2]) : obj[2][i][1] = key
\* obj[key]
GetKey(obj, key) ==
    IF HasKey(obj, key)
    THEN obj[2][CHOOSE i \in 1..Len(obj[2]) : obj[2][i][1] = key][2]
    ELSE Undefined
Keys(obj) == [i \in 1..Len(obj[2]) |-> obj[2][i][1]]

-----------------------------------------------------------------------------
(* stripEnrichment *)

\* The test of lines 330-336: an object with __isEnriched === true and a
\* pubkey property.
IsEnrichedNodeTagOnly(data) ==
    /\ IsPlainObject(data)
    /\ HasKey(data, "__isEnriched")
    /\ GetKey(data, "__isEnriched") = Bool(TRUE)
IsEnrichedNode(data) ==
    /\ IsPlainObject(data)
    /\ HasKey(data, "__isEnriched")
    /\ GetKey(data, "__isEnriched") = Bool(TRUE)
    /\ HasKey(data, "pubkey")

\* What an enriched node is replaced by (line 338).
StripNodeWrongField(data) == GetKey(data, "mint")
StripNode(data) == GetKey(data, "pubkey")

RECURSIVE stripEnrichment(_)
stripEnrichment(data) ==
    IF data = Null \/ data = Undefined THEN data
    ELSE IF IsEnrichedNode(data) THEN StripNode(data)
    ELSE IF IsArray(data)
         THEN Arr([i \in 1..Len(data[2]) |-> stripEnrichment(data[2][i])])
    ELSE IF IsPlainObject(data)
         THEN Obj([i \in 1..Len(data[2]) |->
                     <<data[2][i][1], stripEnrichment(data[2][i][2])>>])
    ELSE data

-----------------------------------------------------------------------------
(* injectEnrichment *)

\* Characters the regular expression's "." does not match.
LineTerminators == {"\n", "\r"}

\* data.match(/\((.*)\)$/): the start positions at which the pattern matches.
\* "(" at i, then any characters but line terminators, then ")" as the last
\* character of the string.
MatchStarts(s) ==
    {i \in 1..Len(s) :
        /\ s[i] = "("
        /\ i < Len(s)
        /\ s[Len(s)] = ")"
        /\ \A j \in (i+1)..(Len(s)-1) : s[j] \notin LineTerminators}

HasMatch(s) == MatchStarts(s) # {}

\* match[1]: the capture of the leftmost match (".*" is greedy and "$" pins
\* the closing parenthesis to the end, so the capture runs from the leftmost
\* admissible "(" to the last character but one).
MatchGroup1(s) ==
    LET i == CHOOSE m \in MatchStarts(s) : \A n \in MatchStarts(s) : m <= n
    IN  SubSeq(s, i + 1, Len(s) - 1)

MapHas(map, key) == key \in DOMAIN map

\* The string case of injectEnrichment (lines 363-376).
InjectStringNoWrapped(s, map) ==
    IF MapHas(map, s) THEN map[s] ELSE Str(s)
InjectString(s, map) ==
    IF MapHas(map, s) THEN map[s]
    ELSE IF HasMatch(s) /\ MapHas(map, MatchGroup1(s)) THEN map[MatchGroup1(s)]
    ELSE Str(s)

RECURSIVE injectEnrichment(_, _)
injectEnrichment(data, map) ==
    IF IsString(data) THEN InjectString(data[2], map)
    ELSE IF IsArray(data)
         THEN Arr([i \in 1..Len(data[2]) |-> injectEnrichment(data[2][i], map)])
    ELSE IF IsPlainObject(data)
         THEN Obj([i \in 1..Len(data[2]) |->
                     <<data[2][i][1], injectEnrichment(data[2][i][2], map)>>])
    ELSE data

-----------------------------------------------------------------------------
(* base64ToBytes *)

B64Alphabet ==
    << "A","B","C","D","E","F","G","H","I","J","K","L","M","N","O","P",
       "Q","R","S","T","U","V","W","X","Y","Z","a","b","c","d","e","f",
       "g","h","i","j","k","l","m","n","o","p","q","r","s","t","u","v",
       "w","x","y","z","0","1","2","3","4","5","6","7","8","9","+","/" >>

B64Chars == {B64Alphabet[i] : i \in 1..Len(B64Alphabet)}

B64Val == [c \in B64Chars |-> (CHOOSE i \in 1..Len(B64Alphabet) : B64Alphabet[i] = c) - 1]

AsciiWhitespace == {" ", "\t", "\n", "\f", "\r"}

\* atob, step 1: ASCII whitespace is removed.
RemoveWhitespace(s) == SelectSeq(s, LAMBDA c : c \notin AsciiWhitespace)

\* atob, step 2: when the length is a multiple of 4, one or two trailing "="
\* are removed.
StripPadding(s) ==
    IF Len(s) % 4 = 0 /\ Len(s) > 0 /\ s[Len(s)] = "="
    THEN IF s[Len(s) - 1] = "="
         THEN SubSeq(s, 1, Len(s) - 2)
         ELSE SubSeq(s, 1, Len(s) - 1)
    ELSE s

AtobData(base64) == StripPadding(RemoveWhitespace(base64))

\* atob throws (InvalidCharacterError) on a length of 1 modulo 4 and on any
\* character outside the alphabet.
AtobThrows(base64) ==
    LET d == AtobData(base64)
    IN  \/ Len(d) % 4 = 1
        \/ \E i \in 1..Len(d) : d[i] \notin B64Chars

\* The 6-bit value of the k-th character of d, 0 past its end.
Sextet(d, k) == IF k <= Len(d) THEN B64Val[d[k]] ELSE 0

\* atob's result as char codes: byte j (from 0) of the decoded data; leftover
\* bits of an incomplete group are dropped.
AtobBytes(base64) ==
    LET d == AtobData(base64)
        n == (Len(d) * 3) \div 4
    IN  [j \in 1..n |->
            LET g == (j - 1) \div 3
                r == (j - 1) % 3
                v == Sextet(d, 4*g + 1) * 262144 + Sextet(d, 4*g + 2) * 4096
                     + Sextet(d, 4*g + 3) * 64 + Sextet(d, 4*g + 4)
            IN  (v \div (2 ^ (16 - 8*r))) % 256]

\* Lines 30-42: the decoded bytes, or an empty array when atob throws.
base64ToBytes(base64) ==
    IF AtobThrows(base64) THEN <<>> ELSE AtobBytes(base64)

\* Whether base64ToBytes ends by throwing: never, the catch of lines 38-41
\* takes every exception of the try block.
Base64ToBytesRethrows(base64) == AtobThrows(base64)
base64ToBytesThrows(base64) == FALSE

\* The encoding the account resolver sends (DataService: data is
\* [base64_string, "base64"]): standard base64 with padding.
Base64Encode(bytes) ==
    LET n == Len(bytes)
        groups == (n + 2) \div 3
        B(k) == IF k <= n THEN bytes[k] ELSE 0
    IN  [c \in 1..(4 * groups) |->
            LET g == (c - 1) \div 4
                q == (c - 1) % 4
                v == B(3*g + 1) * 65536 + B(3*g + 2) * 256 + B(3*g + 3)
                have == n - 3*g   \* bytes in this group (>= 1)
            IN  IF q = 2 /\ have < 2 THEN "="
                ELSE IF q = 3 /\ have < 3 THEN "="
                ELSE B64Alphabet[((v \div (2 ^ (18 - 6*q))) % 64) + 1]]

-----------------------------------------------------------------------------
(* 32-bit integer operators of JavaScript *)

\* x << n for a byte x: the low 32 bits, read as a signed integer.
ShiftLeft(x, n) ==
    LET keep == x % (2 ^ (32 - n))
    IN  IF keep >= 2 ^ (31 - n)
        THEN (keep - 2 ^ (32 - n)) * (2 ^ n)
        ELSE keep * (2 ^ n)

\* Bit i (0..30) of a signed 32-bit integer in two's complement.
Bit(x, i) == (x \div (2 ^ i)) % 2

RECURSIVE OrLow(_, _, _)
OrLow(x, y, i) ==
    IF i < 0 THEN 0
    ELSE (IF Bit(x, i) = 1 \/ Bit(y, i) = 1 THEN 2 ^ i ELSE 0) + OrLow(x, y, i - 1)

\* x | y on signed 32-bit integers.
BitOr(x, y) ==
    IF x < 0 \/ y < 0
    THEN (OrLow(x, y, 30) - 1073741824) - 1073741824
    ELSE OrLow(x, y, 30)

-----------------------------------------------------------------------------
(* The classification of a resolved account (lines 129-171) *)

TOKEN_PROGRAM_ID == "TokenkegQfeZyiNwAJbNbGKPFXCWuBvf9Ss623VQ5DA"
TOKEN_2022_PROGRAM_ID == "TokenzQdBNbLqP5VEhdkAS6EPFLC1PHnBqCXEpPxuEb"

TOKEN_ACCOUNT_LEN == 165
MINT_LEN == 82

\* dataBuf[i], i from 0.
At(dataBuf, i) == dataBuf[i + 1]

\* Lines 152-156.
ReadOpt(dataBuf) ==
    BitOr(BitOr(BitOr(At(dataBuf, 0), ShiftLeft(At(dataBuf, 1), 8)),
                ShiftLeft(At(dataBuf, 2), 16)),
          ShiftLeft(At(dataBuf, 3), 24))

\* Lines 158-163.
IsMintOptionLowByteOnly(dataBuf) == At(dataBuf, 0) = 0 \/ At(dataBuf, 0) = 1
IsMintOption(dataBuf) ==
    /\ (ReadOpt(dataBuf) = 0 \/ ReadOpt(dataBuf) = 1)
    /\ At(dataBuf, 1) = 0
    /\ At(dataBuf, 2) = 0
    /\ At(dataBuf, 3) = 0

OwnerIsTokenProgram(owner) ==
    owner = TOKEN_PROGRAM_ID \/ owner = TOKEN_2022_PROGRAM_ID

\* The flags isTokenAccount / isMint of lines 136-171, as one value:
\* "tokenAccount", "mint" or "none".
ClassifyByLengthHeuristicFirst(owner, dataBuf) ==
    LET len == Len(dataBuf)
    IN  IF owner = TOKEN_2022_PROGRAM_ID
        THEN IF len >= MINT_LEN /\ len < TOKEN_ACCOUNT_LEN THEN "mint"
             ELSE IF len >= TOKEN_ACCOUNT_LEN
                  THEN IF IsMintOption(dataBuf) THEN "mint" ELSE "tokenAccount"
             ELSE "none"
        ELSE IF len = TOKEN_ACCOUNT_LEN THEN "tokenAccount"
        ELSE IF len = MINT_LEN THEN "mint"
        ELSE "none"
ClassifyByLength(owner, dataBuf) ==
    LET len == Len(dataBuf)
    IN  IF len = TOKEN_ACCOUNT_LEN THEN "tokenAccount"
        ELSE IF len = MINT_LEN THEN "mint"
        ELSE IF owner = TOKEN_2022_PROGRAM_ID
             THEN IF len >= MINT_LEN /\ len < TOKEN_ACCOUNT_LEN THEN "mint"
                  ELSE IF len > TOKEN_ACCOUNT_LEN
                       THEN IF IsMintOption(dataBuf) THEN "mint" ELSE "tokenAccount"
                  ELSE "none"
        ELSE "none"

\* Lines 129-134 with the above: info.owner and info.data[0] of one resolved
\* account.
ClassifyAnyOwner(owner, dataBase64) ==
    ClassifyByLength(owner, base64ToBytes(dataBase64))
Classify(owner, dataBase64) ==
    IF OwnerIsTokenProgram(owner)
    THEN ClassifyByLength(owner, base64ToBytes(dataBase64))
    ELSE "none"

-----------------------------------------------------------------------------
(* Numbers wider than 32 bits: little-endian digit sequences *)

\* The digits (least significant first, in the given base, no leading zero;
\* <<>> is zero) of value(d) * mul + carry.
RECURSIVE MulAdd(_, _, _, _)
MulAdd(d, mul, carry, base) ==
    IF d = <<>>
    THEN IF carry = 0 THEN <<>>
         ELSE <<carry % base>> \o MulAdd(<<>>, mul, carry \div base, base)
    ELSE LET v == d[1] * mul + carry
         IN  <<v % base>> \o MulAdd(Tail(d), mul, v \div base, base)

\* The digits of the number whose base-256 digits, most significant first,
\* are bytes.
RECURSIVE DigitsOfBytes(_, _)
DigitsOfBytes(bytes, base) ==
    IF bytes = <<>> THEN <<>>
    ELSE MulAdd(DigitsOfBytes(SubSeq(bytes, 1, Len(bytes) - 1), base),
                256, bytes[Len(bytes)], base)

\* The same sequence, and the same function, with every element evaluated
\* once and stored (instead of a rule evaluated at each application).
AsSeq(f) == SubSeq(f, 1, Len(f))
AsTable(f) == f @@ <<>>

Reverse(s) == AsSeq([i \in 1..Len(s) |-> s[Len(s) + 1 - i]])

-----------------------------------------------------------------------------
(* utils.bytes.bs58.encode (line 178) *)

B58Alphabet ==
    << "1","2","3","4","5","6","7","8","9","A","B","C","D","E","F","G",
       "H","J","K","L","M","N","P","Q","R","S","T","U","V","W","X","Y",
       "Z","a","b","c","d","e","f","g","h","i","j","k","m","n","o","p",
       "q","r","s","t","u","v","w","x","y","z" >>

RECURSIVE LeadingZeros(_)
LeadingZeros(bytes) ==
    IF bytes = <<>> \/ bytes[1] # 0 THEN 0 ELSE 1 + LeadingZeros(Tail(bytes))

\* One "1" per leading zero byte, then the base-58 digits of the rest.
Bs58Encode(bytes) ==
    LET z == LeadingZeros(bytes)
        d == Reverse(DigitsOfBytes(bytes, 58))
    IN  [i \in 1..z |-> "1"] \o [i \in 1..Len(d) |-> B58Alphabet[d[i] + 1]]

-----------------------------------------------------------------------------
(* BN: a non-negative integer as its decimal digits, least significant first *)

\* new BN(Array.from(amountBuf), "le") (line 181).
BNFromLE(bytes) == DigitsOfBytes(Reverse(bytes), 10)

DigitChars == <<"0", "1", "2", "3", "4", "5", "6", "7", "8", "9">>

\* amount.toString()
BNToString(a) ==
    IF a = <<>> THEN <<"0">>
    ELSE [i \in 1..Len(a) |-> DigitChars[a[Len(a) + 1 - i] + 1]]

\* Removes the zeros at the most significant end.
RECURSIVE BNNormalize(_)
BNNormalize(a) ==
    IF a # <<>> /\ a[Len(a)] = 0 THEN BNNormalize(SubSeq(a, 1, Len(a) - 1)) ELSE a

\* amount.div(new BN(10).pow(new BN(decimals)))
BNDivPow10(a, decimals) ==
    IF Len(a) <= decimals THEN <<>> ELSE SubSeq(a, decimals + 1, Len(a))

\* amount.mod(new BN(10).pow(new BN(decimals)))
BNModPow10(a, decimals) ==
    BNNormalize(IF Len(a) <= decimals THEN a ELSE SubSeq(a, 1, decimals))

-----------------------------------------------------------------------------
(* formatAmount (lines 71-85) and the grouping of lines 242-255 *)

\* str.padStart(n, "0")
PadStartZeroNone(str, n) == str
PadStartZero(str, n) ==
    IF Len(str) >= n THEN str ELSE [i \in 1..(n - Len(str)) |-> "0"] \o str

\* str.replace(/0+$/, "")
StripEveryZero(str) == SelectSeq(str, LAMBDA c : c # "0")
RECURSIVE StripTrailingZeros(_)
StripTrailingZeros(str) ==
    IF str # <<>> /\ str[Len(str)] = "0"
    THEN StripTrailingZeros(SubSeq(str, 1, Len(str) - 1))
    ELSE str

formatAmount(amount, decimals) ==
    IF decimals = 0 THEN BNToString(amount)
    ELSE LET integerPart == BNDivPow10(amount, decimals)
             fractionalPart == BNModPow10(amount, decimals)
             fracStr == StripTrailingZeros(
                            PadStartZero(BNToString(fractionalPart), decimals))
         IN  IF Len(fracStr) > 0
             THEN BNToString(integerPart) \o <<".">> \o fracStr
             ELSE BNToString(integerPart)

IsDigit(c) == c \in {"0", "1", "2", "3", "4", "5", "6", "7", "8", "9"}
\* \w of the regular expressions reached here: digits are the only word
\* characters a formatted amount holds.
IsWordChar(c) == IsDigit(c)

\* s.indexOf("."), from 0, -1 when there is none.
IndexOfDot(s) ==
    IF \E i \in 1..Len(s) : s[i] = "."
    THEN (CHOOSE i \in 1..Len(s) : s[i] = "." /\ \A j \in 1..(i-1) : s[j] # ".") - 1
    ELSE -1

\* Whether /\B(?=(\d{3})+(?!\d))/ matches at position p of str (p characters
\* lie before it).
CommaAt(str, p) ==
    /\ (p > 0 /\ IsWordChar(str[p])) = (p < Len(str) /\ IsWordChar(str[p + 1]))
    /\ \E k \in 1..Len(str) :
          /\ p + 3*k <= Len(str)
          /\ \A j \in (p + 1)..(p + 3*k) : IsDigit(str[j])
          /\ (p + 3*k = Len(str) \/ ~IsDigit(str[p + 3*k + 1]))

\* intPart.replace(/\B(?=(\d{3})+(?!\d))/g, ",")
RECURSIVE InsertCommasFrom(_, _)
InsertCommasFrom(str, p) ==
    IF p > Len(str) THEN <<>>
    ELSE (IF CommaAt(str, p) THEN <<",">> ELSE <<>>)
         \o (IF p < Len(str) THEN <<str[p + 1]>> ELSE <<>>)
         \o InsertCommasFrom(str, p + 1)

IntWithCommasNone(intPart) == intPart
IntWithCommas(intPart) == InsertCommasFrom(intPart, 0)

\* Lines 242-255: finalAmt from amountStr.
GroupAmount(s) ==
    LET dotIndex == IndexOfDot(s)
        intPart == IF dotIndex # -1 THEN SubSeq(s, 1, dotIndex) ELSE s
        fracPart == IF dotIndex # -1 THEN SubSeq(s, dotIndex + 2, Len(s)) ELSE <<>>
    IN  IF fracPart # <<>>
        THEN IntWithCommas(intPart) \o <<".">> \o fracPart
        ELSE IntWithCommas(intPart)

\* Whether the classification of lines 129-171 ends by throwing.
ClassifyThrows(owner, dataBase64) ==
    OwnerIsTokenProgram(owner) /\ base64ToBytesThrows(dataBase64)

-----------------------------------------------------------------------------
(* Specification SpecClassify: the classifier on one account *)

TreeIdle ==
    /\ tree = Null
    /\ emap = <<>>
    /\ injected = Null
    /\ stripped = Null
    /\ reinjected = Null
    /\ tstage = "idle"

FetchIdle ==
    /\ fpc = "off"
    /\ fN = 0
    /\ fUseLabel = FALSE
    /\ fI = 0
    /\ fTokenAccounts = <<>>
    /\ fMintAccounts = <<>>
    /\ fApiChunks = <<>>
    /\ fK = 0
    /\ fMintInfoMap = <<>>
    /\ fMap = <<>>
    /\ fResult = <<>>
    /\ fCalls = <<>>
    /\ fInflight = {}
    /\ fFailed = {}
    /\ fLast = "none"

ClassIdle ==
    /\ cOwner = ""
    /\ cBlob = <<>>
    /\ cValid = TRUE
    /\ cData = <<>>
    /\ cKind = "none"
    /\ cstage = "idle"

AmountIdle ==
    /\ aOwner = ""
    /\ aMintBytes = <<>>
    /\ aAmountBytes = <<>>
    /\ aRest = 0
    /\ aData = <<>>
    /\ aMeta = <<"absent">>
    /\ aMint = <<>>
    /\ aAmount = <<>>
    /\ aEntry = Null
    /\ astage = "idle"

ExtractIdle ==
    /\ xTree = Null
    /\ xSet = {}
    /\ xAgain = {}
    /\ xstage = "idle"

HeapIdle ==
    /\ hHeap = <<>>
    /\ hMap = <<>>
    /\ hRoot = Null
    /\ hInjected = Null
    /\ hStripped = Null
    /\ hstage = "idle"

DataIdle ==
    /\ dPubkey = "none"
    /\ dAccountType = "none"
    /\ dCoder = FALSE
    /\ dData = <<"null">>
    /\ dHistory = <<>>
    /\ dLoading = FALSE
    /\ dHistoryLoading = FALSE
    /\ dError = "null"
    /\ dEnrichmentMap = <<"empty">>
    /\ dDetectedType = "none"
    /\ dRuns = <<>>
    /\ dHistoryRuns = <<>>
    /\ dStarted = 0
    /\ dstage = "idle"

AccountsIdle ==
    /\ aType = "none"
    /\ aSearch = <<>>
    /\ aAccounts = <<>>
    /\ aLoading = FALSE
    /\ aError = "null"
    /\ aIsSearching = FALSE
    /\ aCache = {}
    /\ aDebounce = <<>>
    /\ aLatestSearch = <<>>
    /\ aRuns = <<>>
    /\ aStarted = 0
    /\ acstage = "idle"

PageIdle ==
    /\ pSelectedAccountType = "null"
    /\ pSelectedPubkey = "null"
    /\ pSelectedViewId = "null"
    /\ pSearchQuery = <<>>
    /\ pCurrentPage = 1
    /\ pViews = <<>>
    /\ pstage = "idle"

SYSTEM_PROGRAM_ID == "11111111111111111111111111111111"
Owners == {TOKEN_PROGRAM_ID, TOKEN_2022_PROGRAM_ID, SYSTEM_PROGRAM_ID}

ByteSamples == {0, 1, 2, 128, 255}
FewHeads == {<<0, 0, 0, 0, 0>>, <<1, 0, 0, 0, 255>>, <<2, 0, 0, 128, 7>>,
             <<255, 255, 255, 255, 255>>}
AllHeads == {<<a, b, c, d>> : a \in ByteSamples, b \in ByteSamples,
                              c \in ByteSamples, d \in ByteSamples}

\* A blob of len bytes: the head, then the fill byte.
MakeBlob(len, head, fill) ==
    [i \in 1..len |-> IF i <= Len(head) THEN head[i] ELSE fill]

ShortBlobs ==
    {MakeBlob(len, SubSeq(head, 1, 4), head[5]) :
        len \in 0..TOKEN_ACCOUNT_LEN, head \in FewHeads}
LongBlobs ==
    {MakeBlob(len, head, 0) :
        len \in (TOKEN_ACCOUNT_LEN + 1)..MaxBlobLen, head \in AllHeads}

\* Payloads atob rejects: a character outside the alphabet, a length of 1
\* modulo 4, padding in the middle.
UndecodablePayloads ==
    { <<"!", "!", "!", "!">>,
      <<"A", "A", "A", "A", "A">>,
      <<"A", "=", "A", "A">>,
      <<"A", "A", " ", "A", "A", "A">> }

InitClassify ==
    /\ TreeIdle
    /\ FetchIdle
    /\ AmountIdle
    /\ ExtractIdle
    /\ HeapIdle
    /\ DataIdle
    /\ AccountsIdle
    /\ PageIdle
    /\ cOwner \in Owners
    /\ \/ /\ cBlob \in ShortBlobs \cup LongBlobs
          /\ cValid = TRUE
          /\ cData = Base64Encode(cBlob)
       \/ /\ cBlob = <<>>
          /\ cValid = FALSE
          /\ cData \in UndecodablePayloads
    /\ cKind = "none"
    /\ cstage = "input"

\* Lines 129-171 for one resolved account.
ClassifyAccount ==
    /\ cstage = "input"
    /\ IF ClassifyThrows(cOwner, cData)
       THEN cstage' = "threw" /\ cKind' = cKind
       ELSE cstage' = "classified" /\ cKind' = Classify(cOwner, cData)
    /\ UNCHANGED <<cOwner, cBlob, cValid, cData>>
    /\ UNCHANGED <<treeVars, fetchVars, amountVars, extractVars, heapVars, dataVars, accountsVars, pageVars>>

NextClassify == ClassifyAccount

SpecClassify == InitClassify /\ [][NextClassify]_vars

-----------------------------------------------------------------------------
(* Claims about the classifier, checked under SpecClassify *)

Classified == cstage = "classified"

\* C8: a blob owned by either recognized token program is a token holding
\* when it is exactly 165 bytes long and a mint record when it is exactly 82
\* bytes long, whatever its bytes; a 0-byte buffer, and a payload that is
\* not base64, is unclassified, and the decode failure is never raised.
C8_FixedSizeClassification ==
    /\ cstage # "threw"
    /\ (Classified /\ OwnerIsTokenProgram(cOwner)) =>
          /\ (cValid /\ Len(cBlob) = 165) => cKind = "tokenAccount"
          /\ (cValid /\ Len(cBlob) = 82) => cKind = "mint"
          /\ (cValid /\ Len(cBlob) = 0) => cKind = "none"
          /\ ~cValid => cKind = "none"

\* A 165-byte blob of the extension-capable program whose first four bytes
\* look like a mint's authority option has been classified a token holding.
C8_Witness ==
    /\ Classified
    /\ cOwner = TOKEN_2022_PROGRAM_ID
    /\ cValid
    /\ Len(cBlob) = 165
    /\ SubSeq(cBlob, 1, 4) = <<1, 0, 0, 0>>
    /\ cKind = "tokenAccount"

\* C9: an owner that is neither token program gives unclassified for every
\* length and content; under the fixed-layout program every length but 82
\* and 165 is unclassified; under the extension-capable program every length
\* strictly between 82 and 165 is a mint record and every length below 82 is
\* unclassified.
C9_DecisionTable ==
    Classified =>
       /\ ~OwnerIsTokenProgram(cOwner) => cKind = "none"
       /\ (cOwner = TOKEN_PROGRAM_ID /\ Len(cBlob) \notin {82, 165})
             => cKind = "none"
       /\ (cOwner = TOKEN_2022_PROGRAM_ID /\ cValid
             /\ 82 < Len(cBlob) /\ Len(cBlob) < 165) => cKind = "mint"
       /\ (cOwner = TOKEN_2022_PROGRAM_ID /\ Len(cBlob) < 82) => cKind = "none"

\* A 165-byte blob of an unrecognized owner has been classified: unclassified.
C9_Witness ==
    /\ Classified
    /\ cOwner = SYSTEM_PROGRAM_ID
    /\ cValid
    /\ Len(cBlob) = 165
    /\ cKind = "none"

\* C10: a blob of the extension-capable program longer than 165 bytes is a
\* mint record exactly when byte 0 is 0 or 1 and bytes 1, 2, 3 are zero, and
\* a token holding otherwise, also when byte 3 is 128 or more (the signed
\* 32-bit value read is then negative).
C10_VariableLengthHeuristic ==
    (Classified /\ cOwner = TOKEN_2022_PROGRAM_ID /\ cValid /\ Len(cBlob) > 165) =>
       IF cBlob[1] \in {0, 1} /\ cBlob[2] = 0 /\ cBlob[3] = 0 /\ cBlob[4] = 0
       THEN cKind = "mint"
       ELSE cKind = "tokenAccount"

\* A long blob whose first four bytes are 1, 0, 0, 128 (the value read is
\* negative) has been classified a token holding.
C10_Witness ==
    /\ Classified
    /\ cOwner = TOKEN_2022_PROGRAM_ID
    /\ cValid
    /\ Len(cBlob) > 165
    /\ SubSeq(cBlob, 1, 4) = <<1, 0, 0, 128>>
    /\ ReadOpt(cBlob) < 0
    /\ cKind = "tokenAccount"

-----------------------------------------------------------------------------
(* fetchEnrichmentMap: the collaborators (resolver, metadata service, labels) *)

Zeros(n) == [k \in 1..n |-> 0]

\* The i-th address of the model: the base-58 encoding of a 32-byte key.
AddrBytes(i) == Zeros(30) \o <<i \div 256, i % 256>>
Addr(i) == Bs58Encode(AddrBytes(i))

\* Array.from(pubkeys) of the largest input; a Set holds no duplicates.
AllKeys == AsSeq([i \in 1..MaxKeys |-> Addr(i)])
PubkeyList(n) == SubSeq(AllKeys, 1, n)

\* A key that is never among the input addresses.
OutsideMintBytes == <<7>> \o Zeros(31)

\* The layout of a holding record: mint (32), owner (32), amount (8, little
\* endian), then the rest up to len bytes.
HoldingBlob(mintBytes, amountLE, len) ==
    mintBytes \o [k \in 1..32 |-> 9] \o amountLE \o Zeros(len - 72)

MintBlob(len) == <<1, 0, 0, 0>> \o Zeros(len - 4)

Amount250000 == <<144, 208, 3, 0, 0, 0, 0, 0>>
Amount1234567 == <<135, 214, 18, 0, 0, 0, 0, 0>>
AmountMax == <<255, 255, 255, 255, 255, 255, 255, 255>>
Amount100 == <<100, 0, 0, 0, 0, 0, 0, 0>>

NoInfo == Null
Info(owner, dataBase64) == <<"account", owner, <<dataBase64, "base64">> >>
InfoOwner(info) == info[2]
InfoData0(info) == info[3][1]

\* What the account resolver holds for the i-th address.
AccountAt(i) ==
    CASE i = 1 -> Info(TOKEN_PROGRAM_ID,
                       Base64Encode(HoldingBlob(AddrBytes(2), Amount250000, 165)))
      [] i = 2 -> Info(TOKEN_PROGRAM_ID, Base64Encode(MintBlob(82)))
      [] i = 4 -> Info(TOKEN_2022_PROGRAM_ID,
                       Base64Encode(HoldingBlob(OutsideMintBytes, AmountMax, 170)))
      [] i = 5 -> Info(SYSTEM_PROGRAM_ID, Base64Encode(Zeros(165)))
      [] i = 6 -> Info(TOKEN_2022_PROGRAM_ID, Base64Encode(MintBlob(100)))
      [] i = 7 -> Info(TOKEN_PROGRAM_ID, <<"!", "!", "!", "!">>)
      [] i = 8 -> Info(TOKEN_PROGRAM_ID,
                       Base64Encode(HoldingBlob(AddrBytes(2), Amount1234567, 165)))
      [] i = 9 -> Info(TOKEN_2022_PROGRAM_ID,
                       Base64Encode(HoldingBlob(AddrBytes(2), Amount100, 170)))
      [] i = 10 -> Info(TOKEN_PROGRAM_ID, Base64Encode(MintBlob(100)))
      [] i \in 101..160 -> Info(TOKEN_PROGRAM_ID, Base64Encode(MintBlob(82)))
      [] i = 201 -> Info(TOKEN_PROGRAM_ID,
                         Base64Encode(HoldingBlob(AddrBytes(101), Amount100, 165)))
      [] OTHER -> NoInfo

AccountDB == AsSeq([i \in 1..MaxKeys |-> AccountAt(i)])

KeyIndex ==
    AsTable([a \in {AllKeys[i] : i \in 1..MaxKeys} |->
                CHOOSE i \in 1..MaxKeys : AllKeys[i] = a])

\* DataService.fetchAccountInfo(chunk), when it succeeds: value, aligned
\* with chunk.
FetchAccountInfo(chunk) ==
    AsSeq([j \in 1..Len(chunk) |-> AccountDB[KeyIndex[chunk[j]]]])

\* What the metadata service knows: json.data of a successful response
\* holds these entries for the mints asked.
ServiceMeta(symbol, decimals, name) ==
    [symbol |-> symbol, decimals |-> decimals, name |-> name]

ServiceData ==
    AsTable([a \in {AllKeys[i] : i \in ({2, 6} \cup (101..160)) \ {150, 160}} |->
                IF a = AllKeys[2]
                THEN ServiceMeta(Str(<<"USDC">>), Num(6), Str(<<"USD Coin">>))
                ELSE IF a = AllKeys[6]
                THEN ServiceMeta(Str(<<>>), Undefined, Undefined)
                ELSE ServiceMeta(Str(<<"TKN">>), Num(2), Undefined)])

\* The labels the caller's getLabel knows; "" is a label that is empty.
LabelDB ==
    AsTable([a \in {AllKeys[i] : i \in {1, 3, 5, 101, 161, MaxKeys}} |->
                IF a = AllKeys[1] THEN <<"Vault">>
                ELSE IF a = AllKeys[3] THEN <<"Treasury">>
                ELSE IF a = AllKeys[5] THEN <<>>
                ELSE IF a = AllKeys[101] THEN <<"Pool">>
                ELSE IF a = AllKeys[161] THEN <<"Fee">>
                ELSE <<"Last">>])

\* getLabel(pubkey)
GetLabel(pubkey) ==
    IF pubkey \in DOMAIN LabelDB THEN Str(LabelDB[pubkey]) ELSE Undefined

\* The sizes of pubkeys the model calls fetchEnrichmentMap with.
KeyCounts == {0, 1, 2, 10, 100, 101, 151, 200, MaxKeys}

-----------------------------------------------------------------------------
(* fetchEnrichmentMap: the computations between two awaits *)

CHUNK_SIZE == 100
API_CHUNK_SIZE == 50
SUPABASE_TOKEN_ICON_URL ==
    "https://xcdlwgvabmruuularsvn.supabase.co/storage/v1/object/public/p0-tokens"

Min(a, b) == IF a <= b THEN a ELSE b

\* Body(v), with v computed once.
With(v, Body(_)) == CHOOSE r \in {Body(x) : x \in {v}} : TRUE

\* keys.slice(i, i + 100) (line 99).
ChunkOneShort(keys, i) == SubSeq(keys, i + 1, Min(i + CHUNK_SIZE - 1, Len(keys)))
Chunk(keys, i) == SubSeq(keys, i + 1, Min(i + CHUNK_SIZE, Len(keys)))

\* Line 109: what a failed resolver call leaves in chunkInfos.
ChunkInfosIgnoringFailure(chunk) == FetchAccountInfo(chunk)
ChunkInfosOnFailure(chunk) == [j \in 1..Len(chunk) |-> NoInfo]

\* Whether an exception of the resolver call leaves the function: never,
\* the catch of lines 107-110 takes it.
ResolverFailureUncaught == TRUE
ResolverFailurePropagates == FALSE

\* Whether an exception of fetch or res.json() leaves the function: never,
\* the catch of lines 228-230 takes it.
MetadataFailureUncaught == TRUE
MetadataFailurePropagates == FALSE

\* Lines 175-181: the fields read from a holding record.
MintOf(dataBuf) == Bs58Encode(SubSeq(dataBuf, 1, 32))
AmountOfShifted(dataBuf) == BNFromLE(SubSeq(dataBuf, 64, 71))
AmountOf(dataBuf) == BNFromLE(SubSeq(dataBuf, 65, 72))

\* Lines 123-171 for position j of the batch: "tokenAccount", "mint" or
\* "none" (also when the resolver has no account there).
KindAt(chunkInfos, j) ==
    IF chunkInfos[j] = NoInfo THEN "none"
    ELSE Classify(InfoOwner(chunkInfos[j]), InfoData0(chunkInfos[j]))

\* The positions of seq, in order, that satisfy Test.
Positions(n, Test(_)) == SelectSeq([j \in 1..n |-> j], Test)

\* Lines 123-191: tokenAccounts, mintAccounts and uniqueMints (a Set, kept
\* as the list of its members in insertion order) of one batch.
Scan(chunk, chunkInfos) ==
    LET n == Len(chunkInfos)
        Kinds == AsSeq([j \in 1..n |-> KindAt(chunkInfos, j)])
        \* the mint position j adds to uniqueMints (lines 184, 188)
        Added(kind) ==
            AsSeq([j \in 1..n |->
                    IF kind[j] = "tokenAccount"
                    THEN MintOf(base64ToBytes(InfoData0(chunkInfos[j])))
                    ELSE IF kind[j] = "mint" THEN chunk[j]
                    ELSE <<>>])
        Found(kind, added, tokenAt, mintAt, newAt) ==
            [tokenAccounts |->
                AsSeq([t \in 1..Len(tokenAt) |->
                    [pubkey |-> chunk[tokenAt[t]],
                     mint |-> added[tokenAt[t]],
                     amount |-> AmountOf(base64ToBytes(InfoData0(chunkInfos[tokenAt[t]])))]]),
             mintAccounts |-> AsSeq([t \in 1..Len(mintAt) |-> chunk[mintAt[t]]]),
             uniqueMints |-> AsSeq([t \in 1..Len(newAt) |-> added[newAt[t]]])]
    IN  With(Kinds, LAMBDA kind :
        With(Added(kind), LAMBDA added :
            LET IsTokenAccount(j) == kind[j] = "tokenAccount"
                IsMint(j) == kind[j] = "mint"
                IsNewMint(j) ==
                    /\ kind[j] # "none"
                    /\ \A h \in 1..(j - 1) : kind[h] = "none" \/ added[h] # added[j]
            IN  With(Positions(n, IsTokenAccount), LAMBDA tokenAt :
                With(Positions(n, IsMint), LAMBDA mintAt :
                With(Positions(n, IsNewMint), LAMBDA newAt :
                    Found(kind, added, tokenAt, mintAt, newAt))))))

\* Lines 203-206.
ApiChunksSingle(mintsList) == IF mintsList = <<>> THEN <<>> ELSE <<mintsList>>
ApiChunks(mintsList) ==
    [c \in 1..((Len(mintsList) + API_CHUNK_SIZE - 1) \div API_CHUNK_SIZE) |->
        SubSeq(mintsList, API_CHUNK_SIZE * (c - 1) + 1,
               Min(API_CHUNK_SIZE * c, Len(mintsList)))]

\* The requests issued when the loop of line 208 reaches apiChunks[k]: that
\* one request, awaited before the next iteration.
MetadataRequestsAllAtOnce(apiChunks, k) == IF k = 1 THEN apiChunks ELSE <<>>
MetadataRequests(apiChunks, k) == <<apiChunks[k]>>

\* JavaScript's a || b.
Falsy(v) == v \in {Undefined, Null, Str(<<>>), Num(0), Bool(FALSE)}
OrElse(a, b) == IF Falsy(a) THEN b ELSE a

\* `${SUPABASE_TOKEN_ICON_URL}/${mint}.png`
LogoURI(mint) == Str(<<SUPABASE_TOKEN_ICON_URL, "/">> \o mint \o <<".png">>)

\* map after map.set(w[1], w[2]) for each w of writes, in order: the last
\* write of a key stays.
MapSetAll(map, writes) ==
    With(AsSeq(writes), LAMBDA ws :
    With({ws[w][1] : w \in 1..Len(ws)}, LAMBDA written :
        LET LastWrite(a) == CHOOSE w \in 1..Len(ws) :
                                /\ ws[w][1] = a
                                /\ \A x \in (w + 1)..Len(ws) : ws[x][1] # a
        IN  AsTable([a \in (DOMAIN map) \cup written |->
                        IF a \in written THEN ws[LastWrite(a)][2] ELSE map[a]])))

\* json.data of a successful response to a request for apiChunk.
ResponseData(apiChunk) ==
    [a \in {apiChunk[k] : k \in 1..Len(apiChunk)} \cap DOMAIN ServiceData |->
        ServiceData[a]]

\* Lines 215-225: one mintInfoMap.set per mint of apiChunk that json.data
\* holds.
MergeMetadataReplacing(mintInfoMap, apiChunk, data) ==
    LET Held(k) == apiChunk[k] \in DOMAIN data
    IN  [a \in {apiChunk[k] : k \in {h \in 1..Len(apiChunk) : Held(h)}} |->
            [symbol |-> OrElse(data[a].symbol, Str(<<"Unknown">>)),
             decimals |-> OrElse(data[a].decimals, Num(0)),
             logoURI |-> LogoURI(a),
             name |-> data[a].name]]
MergeMetadata(mintInfoMap, apiChunk, data) ==
    LET Held(k) == apiChunk[k] \in DOMAIN data
    IN  With(Positions(Len(apiChunk), Held), LAMBDA at :
            MapSetAll(mintInfoMap,
                [t \in 1..Len(at) |->
                    LET mint == apiChunk[at[t]]
                    IN  <<mint,
                          [symbol |-> OrElse(data[mint].symbol, Str(<<"Unknown">>)),
                           decimals |-> OrElse(data[mint].decimals, Num(0)),
                           logoURI |-> LogoURI(mint),
                           name |-> data[mint].name]>>]))

\* Lines 235-238 and 274-277: mintInfoMap.get(mint), or the default.
InfoForNoDefault(mintInfoMap, mint) ==
    IF mint \in DOMAIN mintInfoMap THEN mintInfoMap[mint]
    ELSE [symbol |-> Undefined, decimals |-> Num(0),
          logoURI |-> Undefined, name |-> Undefined]
InfoFor(mintInfoMap, mint) ==
    IF mint \in DOMAIN mintInfoMap THEN mintInfoMap[mint]
    ELSE [symbol |-> Str(<<"Unknown">>), decimals |-> Num(0),
          logoURI |-> LogoURI(mint), name |-> Undefined]

\* getLabel ? getLabel(pubkey) : undefined
LabelOrUndefined(useLabel, pubkey) == IF useLabel THEN GetLabel(pubkey) ELSE Undefined

\* The object of lines 258-269.
TokenAccountEntryMintAsPubkey(ta, info, label) ==
    Obj(<< <<"__isEnriched", Bool(TRUE)>>,
           <<"__type", Str(<<"token">>)>>,
           <<"mint", Str(ta.mint)>>,
           <<"pubkey", Str(ta.mint)>>,
           <<"symbol", info.symbol>>,
           <<"decimals", info.decimals>>,
           <<"balance", Str(GroupAmount(formatAmount(ta.amount, info.decimals[2])))>>,
           <<"logoURI", info.logoURI>>,
           <<"name", info.name>>,
           <<"label", label>> >>)
TokenAccountEntry(ta, info, label) ==
    Obj(<< <<"__isEnriched", Bool(TRUE)>>,
           <<"__type", Str(<<"token">>)>>,
           <<"mint", Str(ta.mint)>>,
           <<"pubkey", Str(ta.pubkey)>>,
           <<"symbol", info.symbol>>,
           <<"decimals", info.decimals>>,
           <<"balance", Str(GroupAmount(formatAmount(ta.amount, info.decimals[2])))>>,
           <<"logoURI", info.logoURI>>,
           <<"name", info.name>>,
           <<"label", label>> >>)

\* The object of lines 280-290.
MintEntryWithBalance(mintPubkey, info, label) ==
    Obj(<< <<"__isEnriched", Bool(TRUE)>>,
           <<"__type", Str(<<"token">>)>>,
           <<"mint", Str(mintPubkey)>>,
           <<"pubkey", Str(mintPubkey)>>,
           <<"symbol", info.symbol>>,
           <<"decimals", info.decimals>>,
           <<"balance", Str(<<"0">>)>>,
           <<"logoURI", info.logoURI>>,
           <<"name", info.name>>,
           <<"label", label>> >>)
MintEntry(mintPubkey, info, label) ==
    Obj(<< <<"__isEnriched", Bool(TRUE)>>,
           <<"__type", Str(<<"token">>)>>,
           <<"mint", Str(mintPubkey)>>,
           <<"pubkey", Str(mintPubkey)>>,
           <<"symbol", info.symbol>>,
           <<"decimals", info.decimals>>,
           <<"logoURI", info.logoURI>>,
           <<"name", info.name>>,
           <<"label", label>> >>)

\* The object of lines 300-305.
LabeledEntry(pubkey, label) ==
    Obj(<< <<"__isEnriched", Bool(TRUE)>>,
           <<"__type", Str(<<"labeled">>)>>,
           <<"pubkey", Str(pubkey)>>,
           <<"label", label>> >>)

\* Lines 234-270: one enrichmentMap.set per entry of tokenAccounts.
EnrichTokenAccounts(map, tokenAccounts, mintInfoMap, useLabel) ==
    MapSetAll(map,
        [k \in 1..Len(tokenAccounts) |->
            LET ta == tokenAccounts[k]
            IN  <<ta.pubkey,
                  TokenAccountEntry(ta, InfoFor(mintInfoMap, ta.mint),
                                    LabelOrUndefined(useLabel, ta.pubkey))>>])

\* Lines 273-291: one enrichmentMap.set per entry of mintAccounts.
EnrichMintAccounts(map, mintAccounts, mintInfoMap, useLabel) ==
    MapSetAll(map,
        [k \in 1..Len(mintAccounts) |->
            LET mintPubkey == mintAccounts[k]
            IN  <<mintPubkey,
                  MintEntry(mintPubkey, InfoFor(mintInfoMap, mintPubkey),
                            LabelOrUndefined(useLabel, mintPubkey))>>])

\* Lines 234-291.
EnrichBatch(map, tokenAccounts, mintAccounts, mintInfoMap, useLabel) ==
    With(EnrichTokenAccounts(map, tokenAccounts, mintInfoMap, useLabel),
         LAMBDA withHoldings :
            EnrichMintAccounts(withHoldings, mintAccounts, mintInfoMap, useLabel))

\* existing.label = label
SetKeyReplacing(obj, key, v) == Obj(<< <<key, v>> >>)
SetKey(obj, key, v) ==
    IF HasKey(obj, key)
    THEN Obj([i \in 1..Len(obj[2]) |->
                IF obj[2][i][1] = key THEN <<key, v>> ELSE obj[2][i]])
    ELSE Obj(Append(obj[2], <<key, v>>))

\* Lines 296-317: pubkeys holds no address twice, so each iteration reads
\* the entry of its own address only.  An address without an entry gets a
\* labeled one when its label is truthy; an address with an entry gets the
\* label written into that entry when the label is truthy.
LabelLoopAnyLabel(map, pubkeys) ==
    With({pubkeys[k] : k \in {h \in 1..Len(pubkeys) : pubkeys[h] \in DOMAIN LabelDB}},
         LAMBDA labeled :
            AsTable([a \in (DOMAIN map) \cup labeled |->
                        IF ~MapHas(map, a) THEN LabeledEntry(a, GetLabel(a))
                        ELSE IF a \in labeled THEN SetKey(map[a], "label", GetLabel(a))
                        ELSE map[a]]))
LabelLoop(map, pubkeys) ==
    With({pubkeys[k] : k \in {h \in 1..Len(pubkeys) : ~Falsy(GetLabel(pubkeys[h]))}},
         LAMBDA labeled :
            AsTable([a \in (DOMAIN map) \cup labeled |->
                        IF ~MapHas(map, a) THEN LabeledEntry(a, GetLabel(a))
                        ELSE IF a \in labeled THEN SetKey(map[a], "label", GetLabel(a))
                        ELSE map[a]]))

\* Lines 294-318.
LabelPass(map, pubkeys, useLabel) ==
    IF useLabel THEN LabelLoop(map, pubkeys) ELSE map

-----------------------------------------------------------------------------
(* Specification SpecFetch: one call of fetchEnrichmentMap.  A step runs    *)
(* the function from one await to the next: it settles the outstanding     *)
(* external call, computes, and issues the next call or returns.           *)

ResolverCall(i, chunk) == [kind |-> "resolver", batch |-> i, list |-> chunk]
MetadataCall(i, apiChunk) == [kind |-> "metadata", batch |-> i, list |-> apiChunk]

MetadataCalls(i, apiChunks, k) ==
    LET reqs == MetadataRequests(apiChunks, k)
    IN  [r \in 1..Len(reqs) |-> MetadataCall(i, reqs[r])]

\* The state a step leaves, and the calls it issues.
Step(pc, i, tokenAccounts, mintAccounts, apiChunks, k, mintInfoMap, map, result, issue) ==
    [pc |-> pc, i |-> i, tokenAccounts |-> tokenAccounts, mintAccounts |-> mintAccounts,
     apiChunks |-> apiChunks, k |-> k, mintInfoMap |-> mintInfoMap, map |-> map,
     result |-> result, issue |-> issue]

\* Lines 98-104: the iteration for offset i, up to its await.
StartBatch(keys, i, map) ==
    Step("awaitResolver", i, <<>>, <<>>, <<>>, 0, <<>>, map, <<>>,
         <<ResolverCall(i, Chunk(keys, i))>>)

\* Lines 294-320.
Finish(keys, useLabel, map) ==
    Step("returned", Len(keys), <<>>, <<>>, <<>>, 0, <<>>, map,
         LabelPass(map, keys, useLabel), <<>>)

\* The end of an iteration (also by `continue`): i += 100, the test of
\* line 98, and the next iteration or the rest of the function.
NextBatch(keys, useLabel, i, map) ==
    IF i + CHUNK_SIZE < Len(keys)
    THEN StartBatch(keys, i + CHUNK_SIZE, map)
    ELSE Finish(keys, useLabel, map)

\* Lines 92-98.
Begin(keys, useLabel) ==
    IF Len(keys) = 0
    THEN Step("returned", 0, <<>>, <<>>, <<>>, 0, <<>>, <<>>, <<>>, <<>>)
    ELSE StartBatch(keys, 0, <<>>)

\* Lines 112-211: from chunkInfos to the first metadata request, or on to
\* the next batch when the batch references no mint.
AfterResolverNoSkip(keys, useLabel, i, map, chunkInfos) ==
    With(Chunk(keys, i), LAMBDA chunk :
    With(Scan(chunk, chunkInfos), LAMBDA found :
        With(IF Len(found.uniqueMints) = 0 THEN << <<>> >>
             ELSE AsSeq(ApiChunks(found.uniqueMints)), LAMBDA apiChunks :
                Step("awaitMetadata", i, found.tokenAccounts, found.mintAccounts,
                     apiChunks, 1, <<>>, map, <<>>, MetadataCalls(i, apiChunks, 1)))))
AfterResolver(keys, useLabel, i, map, chunkInfos) ==
    With(Chunk(keys, i), LAMBDA chunk :
    With(Scan(chunk, chunkInfos), LAMBDA found :
        IF Len(found.uniqueMints) = 0
        THEN NextBatch(keys, useLabel, i, map)
        ELSE With(AsSeq(ApiChunks(found.uniqueMints)), LAMBDA apiChunks :
                Step("awaitMetadata", i, found.tokenAccounts, found.mintAccounts,
                     apiChunks, 1, <<>>, map, <<>>, MetadataCalls(i, apiChunks, 1)))))

\* Lines 208-291: after the request for apiChunks[k] has settled with
\* mintInfoMap as given.
AfterMetadata(keys, useLabel, i, tokenAccounts, mintAccounts, apiChunks, k, mintInfoMap, map) ==
    IF k < Len(apiChunks)
    THEN Step("awaitMetadata", i, tokenAccounts, mintAccounts, apiChunks, k + 1,
              mintInfoMap, map, <<>>, MetadataCalls(i, apiChunks, k + 1))
    ELSE With(EnrichBatch(map, tokenAccounts, mintAccounts, mintInfoMap, useLabel),
              LAMBDA enriched : NextBatch(keys, useLabel, i, enriched))

\* An exception leaves the function: the promise is rejected.
Thrown == Step("threw", fI, <<>>, <<>>, <<>>, 0, <<>>, fMap, <<>>, <<>>)

Outstanding(kind) == {c \in fInflight : fCalls[c].kind = kind}

Apply(r, settled, failed, last) ==
    /\ fpc' = r.pc
    /\ fI' = r.i
    /\ fTokenAccounts' = r.tokenAccounts
    /\ fMintAccounts' = r.mintAccounts
    /\ fApiChunks' = r.apiChunks
    /\ fK' = r.k
    /\ fMintInfoMap' = r.mintInfoMap
    /\ fMap' = r.map
    /\ fResult' = r.result
    /\ fCalls' = fCalls \o r.issue
    /\ fInflight' = (fInflight \ settled)
                       \cup ((Len(fCalls) + 1)..(Len(fCalls) + Len(r.issue)))
    /\ fFailed' = fFailed \cup failed
    /\ fLast' = last

InitFetch ==
    /\ TreeIdle
    /\ ClassIdle
    /\ AmountIdle
    /\ ExtractIdle
    /\ HeapIdle
    /\ DataIdle
    /\ AccountsIdle
    /\ PageIdle
    /\ fpc = "idle"
    /\ fN = 0
    /\ fUseLabel = FALSE
    /\ fI = 0
    /\ fTokenAccounts = <<>>
    /\ fMintAccounts = <<>>
    /\ fApiChunks = <<>>
    /\ fK = 0
    /\ fMintInfoMap = <<>>
    /\ fMap = <<>>
    /\ fResult = <<>>
    /\ fCalls = <<>>
    /\ fInflight = {}
    /\ fFailed = {}
    /\ fLast = "none"

\* fetchEnrichmentMap(pubkeys, getLabel) is called.
CallFetch ==
    /\ fpc = "idle"
    /\ \E n \in KeyCounts, useLabel \in BOOLEAN :
          /\ fN' = n
          /\ fUseLabel' = useLabel
          /\ \E r \in {Begin(PubkeyList(n), useLabel)} : Apply(r, {}, {}, "none")
    /\ UNCHANGED <<treeVars, classVars, amountVars, extractVars, heapVars, dataVars, accountsVars, pageVars>>

\* DataService.fetchAccountInfo(chunk) resolves.
ResolverReturns ==
    /\ fpc = "awaitResolver"
    /\ \E c \in Outstanding("resolver") :
          \E chunkInfos \in {FetchAccountInfo(fCalls[c].list)} :
             \E r \in {AfterResolver(PubkeyList(fN), fUseLabel, fI, fMap, chunkInfos)} :
                Apply(r, {c}, {}, "ok")
    /\ UNCHANGED <<fN, fUseLabel>>
    /\ UNCHANGED <<treeVars, classVars, amountVars, extractVars, heapVars, dataVars, accountsVars, pageVars>>

\* DataService.fetchAccountInfo(chunk) rejects.
ResolverFails ==
    /\ fpc = "awaitResolver"
    /\ \E c \in Outstanding("resolver") :
          IF ResolverFailurePropagates
          THEN Apply(Thrown, {c}, {c}, "resolverError")
          ELSE \E chunkInfos \in {ChunkInfosOnFailure(fCalls[c].list)} :
                  \E r \in {AfterResolver(PubkeyList(fN), fUseLabel, fI, fMap, chunkInfos)} :
                     Apply(r, {c}, {c}, "resolverError")
    /\ UNCHANGED <<fN, fUseLabel>>
    /\ UNCHANGED <<treeVars, classVars, amountVars, extractVars, heapVars, dataVars, accountsVars, pageVars>>

\* The metadata request answers ok with a successful payload.
MetadataReturns ==
    /\ fpc = "awaitMetadata"
    /\ \E c \in Outstanding("metadata") :
          \E data \in {ResponseData(fCalls[c].list)} :
             \E mintInfoMap \in {MergeMetadata(fMintInfoMap, fCalls[c].list, data)} :
                \E r \in {AfterMetadata(PubkeyList(fN), fUseLabel, fI, fTokenAccounts,
                                        fMintAccounts, fApiChunks, fK, mintInfoMap, fMap)} :
                   Apply(r, {c}, {}, "ok")
    /\ UNCHANGED <<fN, fUseLabel>>
    /\ UNCHANGED <<treeVars, classVars, amountVars, extractVars, heapVars, dataVars, accountsVars, pageVars>>

\* The metadata request answers with a non-ok status (line 212) or with a
\* payload that is not successful or holds no data (line 214).
MetadataRejected ==
    /\ fpc = "awaitMetadata"
    /\ \E c \in Outstanding("metadata"), how \in {"notOk", "unsuccessful"} :
          \E r \in {AfterMetadata(PubkeyList(fN), fUseLabel, fI, fTokenAccounts,
                                  fMintAccounts, fApiChunks, fK, fMintInfoMap, fMap)} :
             Apply(r, {c}, {c}, how)
    /\ UNCHANGED <<fN, fUseLabel>>
    /\ UNCHANGED <<treeVars, classVars, amountVars, extractVars, heapVars, dataVars, accountsVars, pageVars>>

\* fetch rejects, or res.json() throws.
MetadataFails ==
    /\ fpc = "awaitMetadata"
    /\ \E c \in Outstanding("metadata"), how \in {"networkError", "jsonError"} :
          IF MetadataFailurePropagates
          THEN Apply(Thrown, {c}, {c}, how)
          ELSE \E r \in {AfterMetadata(PubkeyList(fN), fUseLabel, fI, fTokenAccounts,
                                       fMintAccounts, fApiChunks, fK, fMintInfoMap, fMap)} :
                  Apply(r, {c}, {c}, how)
    /\ UNCHANGED <<fN, fUseLabel>>
    /\ UNCHANGED <<treeVars, classVars, amountVars, extractVars, heapVars, dataVars, accountsVars, pageVars>>

\* Every external call eventually resolves or rejects.
ExternalCallSettles ==
    ResolverFails \/ ResolverReturns \/ MetadataRejected \/ MetadataFails \/ MetadataReturns

NextFetch ==
    \/ CallFetch
    \/ ResolverReturns
    \/ ResolverFails
    \/ MetadataReturns
    \/ MetadataRejected
    \/ MetadataFails

SpecFetch == InitFetch /\ [][NextFetch]_vars /\ WF_vars(ExternalCallSettles)

-----------------------------------------------------------------------------
(* Specification SpecTree: injectEnrichment and stripEnrichment on one tree *)

\* The map fetchEnrichmentMap returns for keys when every external call
\* succeeds (one batch), and when the resolver call fails.
MapWhenAllSucceed(keys, useLabel) ==
    LET found == Scan(keys, FetchAccountInfo(keys))
        mintInfoMap == MergeMetadata(<<>>, found.uniqueMints,
                                     ResponseData(found.uniqueMints))
    IN  LabelPass(EnrichBatch(<<>>, found.tokenAccounts, found.mintAccounts,
                              mintInfoMap, useLabel),
                  keys, useLabel)
MapWhenResolverFails(keys, useLabel) == LabelPass(<<>>, keys, useLabel)

TreeMaps ==
    { MapWhenAllSucceed(PubkeyList(10), TRUE),
      MapWhenAllSucceed(PubkeyList(10), FALSE),
      MapWhenResolverFails(PubkeyList(10), TRUE) }

\* The leaves of the generated trees: addresses with a token entry
\* (holding, mint), with a label only, with no entry; the wrapped form of
\* line 370; strings with several parentheses; other scalars.
TreeLeaves ==
    { Str(Addr(1)), Str(Addr(2)), Str(Addr(3)), Str(Addr(11)),
      Str(<<"V", "a", "u", "l", "t", " ", "(">> \o Addr(1) \o <<")">>),
      Str(<<"(">> \o Addr(3) \o <<")">>),
      Str(<<"a", "(", "b", ")", " ", "(">> \o Addr(2) \o <<")">>),
      Str(<<"(">> \o Addr(2) \o <<")", " ">>),
      Str(<<"(", ")">>),
      Str(<<"h", "e", "l", "l", "o">>),
      Str(<<>>),
      Num(250000), Bool(TRUE), Null, Undefined }

\* One container around t.
TreeContexts == 1..5
Wrap(c, t) ==
    CASE c = 1 -> Arr(<<t>>)
      [] c = 2 -> Arr(<<Num(1), t, Str(Addr(3))>>)
      [] c = 3 -> Obj(<< <<"owner", t>> >>)
      [] c = 4 -> Obj(<< <<"amount", Num(5)>>, <<"mint", t>>,
                         <<"authority", Str(Addr(2))>> >>)
      [] c = 5 -> Obj(<< <<"__isEnriched", Bool(TRUE)>>, <<"value", t>> >>)

RECURSIVE TreesOfDepth(_)
TreesOfDepth(d) ==
    IF d = 0 THEN TreeLeaves
    ELSE LET inner == TreesOfDepth(d - 1)
         IN  inner \cup {Wrap(c, t) : c \in TreeContexts, t \in inner}

InitTree ==
    /\ ClassIdle
    /\ FetchIdle
    /\ AmountIdle
    /\ ExtractIdle
    /\ HeapIdle
    /\ DataIdle
    /\ AccountsIdle
    /\ PageIdle
    /\ tree \in TreesOfDepth(MaxDepth)
    /\ emap \in TreeMaps
    /\ injected = Null
    /\ stripped = Null
    /\ reinjected = Null
    /\ tstage = {}

\* enriched = injectEnrichment(raw, enrichMap)
Inject ==
    /\ "inject" \notin tstage
    /\ injected' = injectEnrichment(tree, emap)
    /\ tstage' = tstage \cup {"inject"}
    /\ UNCHANGED <<tree, emap, stripped, reinjected>>
    /\ UNCHANGED <<classVars, fetchVars, amountVars, extractVars, heapVars, dataVars, accountsVars, pageVars>>

\* stripEnrichment(enriched)
Strip ==
    /\ "inject" \in tstage
    /\ "strip" \notin tstage
    /\ stripped' = stripEnrichment(injected)
    /\ tstage' = tstage \cup {"strip"}
    /\ UNCHANGED <<tree, emap, injected, reinjected>>
    /\ UNCHANGED <<classVars, fetchVars, amountVars, extractVars, heapVars, dataVars, accountsVars, pageVars>>

\* injectEnrichment(enriched, enrichMap)
InjectAgain ==
    /\ "inject" \in tstage
    /\ "reinject" \notin tstage
    /\ reinjected' = injectEnrichment(injected, emap)
    /\ tstage' = tstage \cup {"reinject"}
    /\ UNCHANGED <<tree, emap, injected, stripped>>
    /\ UNCHANGED <<classVars, fetchVars, amountVars, extractVars, heapVars, dataVars, accountsVars, pageVars>>

NextTree == Inject \/ Strip \/ InjectAgain

SpecTree == InitTree /\ [][NextTree]_vars

-----------------------------------------------------------------------------
(* Claims about inject and strip, checked under SpecTree *)

IsContainer(v) == IsArray(v) \/ IsPlainObject(v)

\* r has the container shape of t: an array of the same length, or an
\* object with the same keys in the same order.
SameShape(t, r) ==
    /\ TypeOf(r) = TypeOf(t)
    /\ Len(r[2]) = Len(t[2])
    /\ IsPlainObject(t) => Keys(r) = Keys(t)

\* The i-th child of a container.
Child(v, i) == IF IsArray(v) THEN v[2][i] ELSE v[2][i][2]

\* The leaves of t, each paired with what stands at the same position of
\* r; ShapeLost when a container on the way has another shape in r.
ShapeLost == <<"shape lost">>
RECURSIVE LeafPairs(_, _)
LeafPairs(t, r) ==
    IF IsContainer(t)
    THEN IF SameShape(t, r)
         THEN UNION {LeafPairs(Child(t, i), Child(r, i)) : i \in 1..Len(t[2])}
         ELSE {ShapeLost}
    ELSE {<<t, r>>}

IsKeyLeaf(t) == IsString(t) /\ MapHas(emap, t[2])
IsWrappedKeyLeaf(t) ==
    /\ IsString(t)
    /\ ~MapHas(emap, t[2])
    /\ HasMatch(t[2])
    /\ MapHas(emap, MatchGroup1(t[2]))

\* C1: after strip(inject(T, M)), every string leaf of T that is a key of M
\* is the original string again, at the same position of the tree.
C1_RoundTripRestoresAddresses ==
    "strip" \in tstage =>
        \A p \in LeafPairs(tree, stripped) :
            /\ p # ShapeLost
            /\ IsKeyLeaf(p[1]) => p[2] = p[1]

\* A tree holding a key of M below two containers has been injected (the
\* leaf became an entry of M) and stripped.
C1_Witness ==
    /\ "strip" \in tstage
    /\ tree = Wrap(4, Wrap(2, Str(Addr(1))))
    /\ MapHas(emap, Addr(1))
    /\ Child(Child(injected, 2), 2) = emap[Addr(1)]
    /\ Child(Child(stripped, 2), 2) = Str(Addr(1))

\* C2 as claimed: every leaf of T that is not a key of M, whatever its
\* content, is unchanged by strip(inject(T, M)), and the containers keep
\* their shape.
C2_OtherLeavesUnchanged ==
    "strip" \in tstage =>
        \A p \in LeafPairs(tree, stripped) :
            /\ p # ShapeLost
            /\ ~IsKeyLeaf(p[1]) => p[2] = p[1]

\* C2 as amended: every leaf of T that is neither a key of M nor a string
\* ending in "(" k ")" whose parenthesized part k is a key of M is unchanged
\* by strip(inject(T, M)); a leaf of that wrapped form comes back as the
\* bare address k; the containers keep their shape.
C2_OtherLeavesUnchangedButWrapped ==
    "strip" \in tstage =>
        \A p \in LeafPairs(tree, stripped) :
            /\ p # ShapeLost
            /\ (~IsKeyLeaf(p[1]) /\ ~IsWrappedKeyLeaf(p[1])) => p[2] = p[1]
            /\ IsWrappedKeyLeaf(p[1]) => p[2] = Str(MatchGroup1(p[1][2]))

\* A tree holding a wrapped address and other scalars has been injected and
\* stripped: the wrapped leaf came back bare, the number unchanged.
C2_Witness ==
    /\ "strip" \in tstage
    /\ tree = Wrap(2, Str(<<"V", "a", "u", "l", "t", " ", "(">> \o Addr(1) \o <<")">>))
    /\ MapHas(emap, Addr(1))
    /\ stripped = Arr(<<Num(1), Str(Addr(1)), Str(Addr(3))>>)

\* C3: injecting twice gives the same tree as injecting once.
C3_InjectIdempotent ==
    "reinject" \in tstage => reinjected = injected

-----------------------------------------------------------------------------
(* Claims about fetchEnrichmentMap, checked under SpecFetch *)

IsResolverCall(c) == c.kind = "resolver"
ResolverCalls == SelectSeq(fCalls, IsResolverCall)

\* The indexes in fCalls of the calls made for the batch at offset i.
CallsOfBatch(i) == {c \in 1..Len(fCalls) : fCalls[c].batch = i}

\* The offsets of the batches of the input.
BatchOffsets == {CHUNK_SIZE * b : b \in 0..((fN - 1) \div CHUNK_SIZE)}

FailedOf(kind) == {c \in fFailed : fCalls[c].kind = kind}

\* C4: whatever external calls fail, the call never ends in an exception,
\* and, every external call settling at some time, it returns.
C4_NoFailureIsFatal ==
    /\ [](fpc # "threw")
    /\ (fpc \in {"awaitResolver", "awaitMetadata"}) ~> (fpc = "returned")

\* The call has returned a map with entries although a resolver call and
\* two metadata requests failed.
C4_Witness ==
    /\ fpc = "returned"
    /\ FailedOf("resolver") # {}
    /\ Cardinality(FailedOf("metadata")) >= 2
    /\ fLast \in {"networkError", "jsonError", "notOk", "unsuccessful"}
    /\ DOMAIN fResult # {}

\* C5: when the resolver call of a batch has failed, the returned map holds
\* for an address of that batch the labeled annotation of its label, or
\* nothing when it has no label; no metadata request was made for the
\* batch; every later batch has its resolver call, and a later batch none
\* of whose calls failed has the entries it has when nothing fails at all.
C5_ResolverFailureLocal ==
    fpc = "returned" =>
        \A c \in FailedOf("resolver") :
            LET i == fCalls[c].batch
                chunk == fCalls[c].list
            IN  /\ \A j \in 1..Len(chunk) :
                      IF fUseLabel /\ ~Falsy(GetLabel(chunk[j]))
                      THEN /\ MapHas(fResult, chunk[j])
                           /\ fResult[chunk[j]] = LabeledEntry(chunk[j], GetLabel(chunk[j]))
                      ELSE ~MapHas(fResult, chunk[j])
                /\ CallsOfBatch(i) = {c}
                /\ \A i2 \in BatchOffsets :
                      i2 > i =>
                        /\ \E d \in CallsOfBatch(i2) : d > c /\ IsResolverCall(fCalls[d])
                        /\ CallsOfBatch(i2) \cap fFailed = {} =>
                              LET later == Chunk(PubkeyList(fN), i2)
                                  expected == MapWhenAllSucceed(later, fUseLabel)
                              IN  \A j \in 1..Len(later) :
                                     /\ MapHas(fResult, later[j]) = MapHas(expected, later[j])
                                     /\ MapHas(expected, later[j]) =>
                                           fResult[later[j]] = expected[later[j]]

\* The call has returned for the largest input with labels: only the
\* resolver call of the first batch failed; the labeled holding of that
\* batch has a labeled annotation, its unlabeled mint has none, and the
\* mint of the second batch has its token annotation and its label.
C5_Witness ==
    /\ fpc = "returned"
    /\ fN = MaxKeys
    /\ fUseLabel
    /\ fFailed = {1}
    /\ IsResolverCall(fCalls[1])
    /\ fResult[Addr(1)] = LabeledEntry(Addr(1), Str(<<"Vault">>))
    /\ ~MapHas(fResult, Addr(2))
    /\ MapHas(fResult, Addr(101))
    /\ GetKey(fResult[Addr(101)], "__type") = Str(<<"token">>)
    /\ GetKey(fResult[Addr(101)], "label") = Str(<<"Pool">>)

\* C6: at most one external call is outstanding, and it is the last one
\* issued, so that every call is issued after all earlier ones have
\* settled; the calls are issued batch after batch, within a batch the
\* resolver call first; and the map changes only in a step that takes the
\* answer of the one outstanding call.
C6_ExternalCallsSequential ==
    /\ [](/\ Cardinality(fInflight) <= 1
          /\ fInflight \subseteq {Len(fCalls)}
          /\ \A c, d \in 1..Len(fCalls) :
                c < d =>
                  /\ fCalls[c].batch <= fCalls[d].batch
                  /\ fCalls[c].batch = fCalls[d].batch => ~IsResolverCall(fCalls[d]))
    /\ [][(fMap' # fMap \/ fResult' # fResult) =>
            /\ fpc \in {"awaitResolver", "awaitMetadata"}
            /\ Cardinality(fInflight) = 1
            /\ fInflight' \cap fInflight = {}]_vars

\* The second metadata request of a batch is outstanding, alone, after the
\* resolver call and the first request have settled.
C6_Witness ==
    /\ fpc = "awaitMetadata"
    /\ fK = 2
    /\ Len(fCalls) >= 4
    /\ fInflight = {Len(fCalls)}
    /\ ~IsResolverCall(fCalls[Len(fCalls)])
    /\ ~IsResolverCall(fCalls[Len(fCalls) - 1])
    /\ IsResolverCall(fCalls[Len(fCalls) - 2])

\* C7: the b-th resolver call carries the addresses at positions
\* 100*(b-1) .. min(100*b, n) - 1 of the input, between 1 and 100 of them;
\* when the call has returned there have been ceil(n/100) resolver calls,
\* so that each position of the input (a Set: no address twice) went into
\* exactly one call; an empty input returns an empty map with no call.
C7_AccountBatching ==
    LET keys == PubkeyList(fN)
        calls == ResolverCalls
    IN  /\ \A b \in 1..Len(calls) :
              /\ calls[b].batch = CHUNK_SIZE * (b - 1)
              /\ calls[b].list =
                    SubSeq(keys, CHUNK_SIZE * (b - 1) + 1, Min(CHUNK_SIZE * b, fN))
              /\ Len(calls[b].list) \in 1..CHUNK_SIZE
        /\ fpc = "returned" =>
              /\ Len(calls) = (fN + CHUNK_SIZE - 1) \div CHUNK_SIZE
              /\ \A a \in 1..fN :
                    keys[a] = calls[((a - 1) \div CHUNK_SIZE) + 1].list[((a - 1) % CHUNK_SIZE) + 1]
              /\ fN = 0 => fCalls = <<>> /\ fResult = <<>>

\* The call has returned for an input of more than 200 addresses after
\* three resolver calls, the last one with the addresses past the 200th.
C7_Witness ==
    /\ fpc = "returned"
    /\ fN = MaxKeys
    /\ Len(ResolverCalls) = 3
    /\ Len(ResolverCalls[1].list) = CHUNK_SIZE
    /\ ResolverCalls[3].list = SubSeq(AllKeys, 2 * CHUNK_SIZE + 1, MaxKeys)

-----------------------------------------------------------------------------
(* Specification SpecAmount: the balance of one holding record, from its    *)
(* bytes (lines 173-184) to its entry (lines 235-269).                      *)

\* The largest decimals the metadata of the model holds.
MaxDecimals == 21

\* amountBuf of the holding records of the model (little endian).
Amount1000000 == <<64, 66, 15, 0, 0, 0, 0, 0>>

AmountSamples ==
    { Amount100, Amount250000, Amount1000000, Amount1234567, AmountMax,
      <<0, 0, 0, 0, 0, 0, 0, 0>>,                \* 0
      <<1, 0, 0, 0, 0, 0, 0, 0>>,                \* 1
      <<231, 3, 0, 0, 0, 0, 0, 0>>,              \* 999
      <<232, 3, 0, 0, 0, 0, 0, 0>>,              \* 1000
      <<233, 3, 0, 0, 0, 0, 0, 0>>,              \* 1001
      <<160, 134, 1, 0, 0, 0, 0, 0>>,            \* 100000
      <<255, 201, 154, 59, 0, 0, 0, 0>>,         \* 999999999
      <<0, 0, 0, 0, 1, 0, 0, 0>>,                \* 2^32
      <<0, 0, 100, 167, 179, 182, 224, 13>>,     \* 10^18
      <<0, 0, 0, 0, 0, 0, 0, 128>>,              \* 2^63
      <<0, 0, 232, 137, 4, 35, 199, 138>>,       \* 10^19
      <<210, 10, 31, 235, 140, 169, 84, 171>> }  \* 12345678901234567890

DenseMintBytes == [k \in 1..32 |-> (37 * k + 11) % 256]

\* A holding record with the given mint and amount and every other byte
\* equal to rest.
HoldingBlobWith(mintBytes, amountLE, rest, len) ==
    mintBytes \o [k \in 1..32 |-> rest] \o amountLE \o [k \in 1..(len - 72) |-> rest]

\* owner, length, mint bytes and other bytes of the records of the model.
HoldingShapes ==
    { <<TOKEN_PROGRAM_ID, 165, AddrBytes(2), 0>>,
      <<TOKEN_PROGRAM_ID, 165, DenseMintBytes, 255>>,
      <<TOKEN_2022_PROGRAM_ID, 165, DenseMintBytes, 0>>,
      <<TOKEN_2022_PROGRAM_ID, 170, OutsideMintBytes, 9>> }

\* What the metadata response holds for the mint: nothing, or an entry.
MetaSamples ==
    { <<"absent">>,
      <<"entry", ServiceMeta(Str(<<"USDC">>), Undefined, Undefined)>> }
    \cup { <<"entry", ServiceMeta(Str(<<"USDC">>), Num(d), Str(<<"USD Coin">>))>> :
              d \in 0..MaxDecimals }

InitAmount ==
    /\ TreeIdle
    /\ ClassIdle
    /\ FetchIdle
    /\ ExtractIdle
    /\ HeapIdle
    /\ DataIdle
    /\ AccountsIdle
    /\ PageIdle
    /\ \E shape \in HoldingShapes :
          /\ aOwner = shape[1]
          /\ aMintBytes = shape[3]
          /\ aRest = shape[4]
          /\ aAmountBytes \in AmountSamples
          /\ aData = Base64Encode(HoldingBlobWith(shape[3], aAmountBytes, shape[4], shape[2]))
    /\ aMeta \in MetaSamples
    /\ aMint = <<>>
    /\ aAmount = <<>>
    /\ aEntry = Null
    /\ astage = "input"

\* Lines 173-184 for an account classified as a token account.
DecodeHolding ==
    /\ astage = "input"
    /\ Classify(aOwner, aData) = "tokenAccount"
    /\ \E dataBuf \in {base64ToBytes(aData)} :
          /\ aMint' = MintOf(dataBuf)
          /\ aAmount' = AmountOf(dataBuf)
    /\ astage' = "decoded"
    /\ UNCHANGED <<aOwner, aMintBytes, aAmountBytes, aRest, aData, aMeta, aEntry>>
    /\ UNCHANGED <<treeVars, classVars, fetchVars, extractVars, heapVars, dataVars, accountsVars, pageVars>>

\* Lines 215-225 for the response to the request for the record's mint,
\* then lines 235-269.
EnrichHolding ==
    /\ astage = "decoded"
    /\ \E mintInfoMap \in {IF aMeta[1] = "absent" THEN <<>>
                           ELSE MergeMetadata(<<>>, <<aMint>>, aMint :> aMeta[2])} :
          aEntry' = TokenAccountEntry(
                        [pubkey |-> Addr(1), mint |-> aMint, amount |-> aAmount],
                        InfoFor(mintInfoMap, aMint), Undefined)
    /\ astage' = "enriched"
    /\ UNCHANGED <<aOwner, aMintBytes, aAmountBytes, aRest, aData, aMeta, aMint, aAmount>>
    /\ UNCHANGED <<treeVars, classVars, fetchVars, extractVars, heapVars, dataVars, accountsVars, pageVars>>

NextAmount == DecodeHolding \/ EnrichHolding

SpecAmount == InitAmount /\ [][NextAmount]_vars

-----------------------------------------------------------------------------
(* Claims about the holding fields and the formatter, checked under         *)
(* SpecAmount.  Numbers beyond the range of the checker's integers are      *)
(* compared by their residues modulo primes whose product exceeds them.     *)

\* Primes below 2^15; the product of all of them exceeds 10^80.
Primes ==
    <<32749, 32719, 32717, 32713, 32707, 32693, 32687, 32653, 32647,
      32633, 32621, 32611, 32609, 32603, 32587, 32579, 32573, 32569>>

\* The number whose digits in the given base, most significant first, are
\* ds, modulo p.
RECURSIVE Residue(_, _, _)
Residue(ds, base, p) ==
    IF ds = <<>> THEN 0
    ELSE (Residue(SubSeq(ds, 1, Len(ds) - 1), base, p) * base + ds[Len(ds)]) % p

\* The two digit sequences denote the same number (both below the product
\* of Primes).
SameNumber(ds1, base1, ds2, base2) ==
    \A i \in 1..Len(Primes) :
        Residue(ds1, base1, Primes[i]) = Residue(ds2, base2, Primes[i])

DigitOf(c) == CHOOSE d \in 0..9 : DigitChars[d + 1] = c
DigitsOfString(str) == [i \in 1..Len(str) |-> DigitOf(str[i])]
B58DigitOf(c) == CHOOSE d \in 0..57 : B58Alphabet[d + 1] = c

\* Whether the string is the decimal representation of a number: digits
\* only, no leading zero except for "0" itself.
IsDecimal(str) ==
    /\ Len(str) >= 1
    /\ \A i \in 1..Len(str) : IsDigit(str[i])
    /\ Len(str) > 1 => str[1] # "0"

\* str <= bound for two decimal representations.
DecimalAtMost(str, bound) ==
    \/ Len(str) < Len(bound)
    \/ /\ Len(str) = Len(bound)
       /\ \/ str = bound
          \/ \E i \in 1..Len(str) :
                /\ DigitOf(str[i]) < DigitOf(bound[i])
                /\ \A j \in 1..(i - 1) : str[j] = bound[j]

TwoTo64Minus1 == <<"1", "8", "4", "4", "6", "7", "4", "4", "0", "7", "3", "7", "0", "9", "5", "5", "1", "6", "1", "5">>

\* The number of zero bytes at the start of bytes.
ZeroPrefix(bytes) ==
    Cardinality({z \in 1..Len(bytes) : \A j \in 1..z : bytes[j] = 0})

\* C11: the amount decoded from a holding record is the number whose
\* little-endian base-256 digits are the bytes at offsets 64..71, whatever
\* the other bytes are, and lies in 0 .. 2^64-1; the mint is the base-58
\* encoding of the bytes at offsets 0..31: as many "1" as these have leading
\* zero bytes, then the base-58 digits of the number they denote.
C11_HoldingFieldDecode ==
    astage \in {"decoded", "enriched"} =>
        LET dec == BNToString(aAmount)
            z == ZeroPrefix(aMintBytes)
        IN  /\ IsDecimal(dec)
            /\ SameNumber(DigitsOfString(dec), 10, Reverse(aAmountBytes), 256)
            /\ DecimalAtMost(dec, TwoTo64Minus1)
            /\ Len(aMint) \in z..44
            /\ \A i \in 1..Len(aMint) :
                  /\ \E d \in 1..58 : B58Alphabet[d] = aMint[i]
                  /\ i <= z => aMint[i] = "1"
            /\ Len(aMint) > z => aMint[z + 1] # "1"
            /\ SameNumber([i \in 1..Len(aMint) |-> B58DigitOf(aMint[i])], 58,
                          aMintBytes, 256)

\* A record whose other bytes are all 255 and whose amount bytes are all
\* 255 has been decoded: the amount is 2^64-1.
C11_Witness ==
    /\ astage = "decoded"
    /\ aRest = 255
    /\ aAmountBytes = AmountMax
    /\ BNToString(aAmount) = TwoTo64Minus1
    /\ Len(aMint) >= 43

\* The balance and the decimals of the entry made for the record.
Balance == GetKey(aEntry, "balance")[2]
EntryDecimals == GetKey(aEntry, "decimals")

\* Whether the metadata response holds decimals d >= 1 for the mint.
MetaDecimalsPositive ==
    /\ aMeta[1] = "entry"
    /\ aMeta[2].decimals[1] = "number"
    /\ aMeta[2].decimals[2] >= 1

DotPositions(str) == {i \in 1..Len(str) : str[i] = "."}
IsNotComma(c) == c # ","
WithoutCommas(str) == SelectSeq(str, IsNotComma)

\* str is digits with a comma before every third digit from the right
\* (the characters at positions 4, 8, 12, ... from the right are commas,
\* the others digits, and the string does not start with a comma).
GroupedEveryThree(str) ==
    /\ Len(str) % 4 # 0
    /\ \A i \in 1..Len(str) :
          IF (Len(str) - i + 1) % 4 = 0 THEN str[i] = "," ELSE IsDigit(str[i])

\* C12: with decimals d >= 1 the balance is an integer part q, grouped by
\* threes, followed only when the remainder r is not 0 by "." and at most d
\* digits not ending in 0, where q * 10^d + r is rawAmount, q is written
\* without leading zeros and r is the fractional digits filled with zeros on
\* the right up to d digits (that is, r left-padded to d digits with its
\* trailing zeros removed); (1234567, 2) gives "12,345.67", (100, 3) gives
\* "0.1".
C12_FormatterWithDecimals ==
    (astage = "enriched" /\ MetaDecimalsPositive) =>
        LET d == aMeta[2].decimals[2]
            dots == DotPositions(Balance)
            dot == CHOOSE i \in dots : TRUE
            intPart == IF dots = {} THEN Balance ELSE SubSeq(Balance, 1, dot - 1)
            frac == IF dots = {} THEN <<>> ELSE SubSeq(Balance, dot + 1, Len(Balance))
            intDigits == WithoutCommas(intPart)
            padded == frac \o [i \in 1..(d - Len(frac)) |-> "0"]
        IN  /\ EntryDecimals = Num(d)
            /\ Cardinality(dots) <= 1
            /\ GroupedEveryThree(intPart)
            /\ IsDecimal(intDigits)
            /\ dots # {} =>
                  /\ Len(frac) \in 1..d
                  /\ \A i \in 1..Len(frac) : IsDigit(frac[i])
                  /\ frac[Len(frac)] # "0"
            /\ SameNumber(DigitsOfString(intDigits \o padded), 10,
                          Reverse(aAmountBytes), 256)
            /\ (aAmountBytes = Amount1234567 /\ d = 2) =>
                  Balance = <<"1", "2", ",", "3", "4", "5", ".", "6", "7">>
            /\ (aAmountBytes = Amount100 /\ d = 3) => Balance = <<"0", ".", "1">>

\* The record with amount 10^18 has been enriched with decimals 20: the
\* balance is "0.01", the fraction padded on the left and cut on the right.
C12_Witness ==
    /\ astage = "enriched"
    /\ MetaDecimalsPositive
    /\ aMeta[2].decimals[2] = 20
    /\ BNToString(aAmount) = <<"1", "0", "0", "0", "0", "0", "0", "0", "0", "0", "0", "0", "0", "0", "0", "0", "0", "0", "0">>
    /\ Balance = <<"0", ".", "0", "1">>

\* C13: with decimals 0, or with no decimals in the metadata, or with no
\* metadata for the mint, the entry has decimals 0 and its balance is the
\* decimal digits of rawAmount, without leading zeros, grouped by threes,
\* and no decimal point; 1000000 gives "1,000,000".
C13_FormatterWithoutDecimals ==
    (astage = "enriched" /\ ~MetaDecimalsPositive) =>
        /\ EntryDecimals = Num(0)
        /\ DotPositions(Balance) = {}
        /\ GroupedEveryThree(Balance)
        /\ IsDecimal(WithoutCommas(Balance))
        /\ SameNumber(DigitsOfString(WithoutCommas(Balance)), 10,
                      Reverse(aAmountBytes), 256)
        /\ aAmountBytes = Amount1000000 =>
              Balance = <<"1", ",", "0", "0", "0", ",", "0", "0", "0">>

\* The record with amount 2^64-1 has been enriched with metadata that
\* holds no decimals: the balance is the twenty digits in seven groups.
C13_Witness ==
    /\ astage = "enriched"
    /\ aMeta[1] = "entry"
    /\ aMeta[2].decimals = Undefined
    /\ aAmountBytes = AmountMax
    /\ Balance = <<"1", "8", ",", "4", "4", "6", ",", "7", "4", "4", ",", "0", "7", "3", ",", "7", "0", "9", ",", "5", "5", "1", ",", "6", "1", "5">>

\* The balance lines 240-255 make of the u64 in amountBytes with d decimals.
BalanceOf(amountBytes, d) == GroupAmount(formatAmount(BNFromLE(amountBytes), d))

\* C28: the balance of the entry, its commas removed, is an integer part
\* and at most d fractional digits, d the decimals of the entry, and integer
\* part and fraction filled with zeros up to d digits are the decimal
\* digits of rawAmount (the balance read as a number, times 10^d, is
\* rawAmount); and no other amount of the samples has the same balance with
\* the same decimals.
C28_BalanceLosesNoInformation ==
    astage = "enriched" =>
        \E d \in {EntryDecimals[2]} :
        \E plain \in {WithoutCommas(Balance)} :
            LET dots == DotPositions(plain)
                dot == CHOOSE i \in dots : TRUE
                int == IF dots = {} THEN plain ELSE SubSeq(plain, 1, dot - 1)
                frac == IF dots = {} THEN <<>> ELSE SubSeq(plain, dot + 1, Len(plain))
            IN  /\ Cardinality(dots) <= 1
                /\ Len(int) >= 1
                /\ Len(frac) <= d
                /\ \A i \in 1..Len(int) : IsDigit(int[i])
                /\ \A i \in 1..Len(frac) : IsDigit(frac[i])
                /\ SameNumber(DigitsOfString(int \o frac \o [i \in 1..(d - Len(frac)) |-> "0"]), 10,
                              Reverse(aAmountBytes), 256)
                /\ \A other \in AmountSamples \ {aAmountBytes} :
                      BalanceOf(other, d) # Balance

\* The record with amount 1001 has been enriched with decimals 4: the
\* balance "0.1001" keeps the zeros between its digits, and with amount
\* 100000 and decimals 7 the balance is "0.01".
C28_Witness ==
    /\ astage = "enriched"
    /\ \/ /\ aAmountBytes = <<233, 3, 0, 0, 0, 0, 0, 0>>
          /\ EntryDecimals = Num(4)
          /\ Balance = <<"0", ".", "1", "0", "0", "1">>
       \/ /\ aAmountBytes = <<160, 134, 1, 0, 0, 0, 0, 0>>
          /\ EntryDecimals = Num(7)
          /\ Balance = <<"0", ".", "0", "1">>

-----------------------------------------------------------------------------
(* Further claims about fetchEnrichmentMap, checked under SpecFetch *)

\* The batches whose resolver call has settled.
SettledBatches ==
    {i \in BatchOffsets :
        \E c \in CallsOfBatch(i) : IsResolverCall(fCalls[c]) /\ c \notin fInflight}

\* The position in fCalls of the resolver call of batch i.
ResolverCallOf(i) == CHOOSE c \in CallsOfBatch(i) : IsResolverCall(fCalls[c])

\* chunkInfos of a settled batch.
ChunkInfosOf(i) ==
    IF ResolverCallOf(i) \in fFailed
    THEN [j \in 1..Len(fCalls[ResolverCallOf(i)].list) |-> NoInfo]
    ELSE FetchAccountInfo(fCalls[ResolverCallOf(i)].list)

\* Whether the iteration for batch i has ended.
BatchDone(i) == fpc = "returned" \/ fI > i

\* The positions in fCalls of the metadata requests of batch i, in order.
IsMetadataCallAt(c) == ~IsResolverCall(fCalls[c])
MetadataCallsOf(i) ==
    LET OfBatch(c) == IsMetadataCallAt(c) /\ fCalls[c].batch = i
    IN  Positions(Len(fCalls), OfBatch)

\* C14: the requests made for the m mints of a batch carry, in order, the
\* mints at positions 50*j .. min(50*j+49, m-1) of the mint list, which
\* holds no mint twice; there are ceil(m/50) of them once the batch is done,
\* so each carries 1..50 mints and each mint is in exactly one; a list of
\* 120 mints is cut into lists of 50, 50 and 20.
C14_MetadataChunking ==
    /\ \A i \in SettledBatches :
          With(Scan(fCalls[ResolverCallOf(i)].list, ChunkInfosOf(i)).uniqueMints,
               LAMBDA mints :
                 LET m == Len(mints)
                     reqs == MetadataCallsOf(i)
                 IN  /\ \A a, b \in 1..m : a # b => mints[a] # mints[b]
                     /\ \A j \in 1..Len(reqs) :
                           /\ fCalls[reqs[j]].list =
                                 SubSeq(mints, 50 * (j - 1) + 1, Min(50 * j, m))
                           /\ Len(fCalls[reqs[j]].list) \in 1..50
                     /\ BatchDone(i) => Len(reqs) = (m + 49) \div 50
                     /\ (~BatchDone(i) /\ fpc = "awaitMetadata") => Len(reqs) = fK)
    /\ LET chunks == ApiChunks([k \in 1..120 |-> k])
       IN  [j \in 1..Len(chunks) |-> Len(chunks[j])] = <<50, 50, 20>>

\* The call has returned for the largest input after two requests for the
\* 60 mints of the second batch, with 50 and 10 mints.
C14_Witness ==
    /\ fpc = "returned"
    /\ fN = MaxKeys
    /\ 100 \in SettledBatches
    /\ Len(MetadataCallsOf(100)) = 2
    /\ Len(fCalls[MetadataCallsOf(100)[1]].list) = 50
    /\ Len(fCalls[MetadataCallsOf(100)[2]].list) = 10

Range(seq) == {seq[k] : k \in 1..Len(seq)}

\* The position in fCalls of the request of batch i that carries mint.
RequestOfMint(i, mint) ==
    CHOOSE c \in Range(MetadataCallsOf(i)) : mint \in Range(fCalls[c].list)

\* What the entries built from the metadata of a mint hold: the fields of
\* the service's entry (symbol and decimals defaulted when falsy), or the
\* defaults when the mapping has nothing for the mint.
MetadataFields(info) ==
    [symbol |-> info.symbol, decimals |-> info.decimals, name |-> info.name]
FieldsFromService(mint) ==
    [symbol |-> OrElse(ServiceData[mint].symbol, Str(<<"Unknown">>)),
     decimals |-> OrElse(ServiceData[mint].decimals, Num(0)),
     name |-> ServiceData[mint].name]
FieldsByDefault == [symbol |-> Str(<<"Unknown">>), decimals |-> Num(0), name |-> Undefined]
FieldsOfEntry(entry) ==
    [symbol |-> GetKey(entry, "symbol"), decimals |-> GetKey(entry, "decimals"),
     name |-> GetKey(entry, "name")]

\* The addresses of a settled batch classified as token account or mint,
\* each with its mint and its kind.
ClassifiedOf(i) ==
    With(fCalls[ResolverCallOf(i)].list, LAMBDA chunk :
    With(Scan(chunk, ChunkInfosOf(i)), LAMBDA found :
        {<<found.tokenAccounts[t].pubkey, found.tokenAccounts[t].mint, "tokenAccount">> :
            t \in 1..Len(found.tokenAccounts)}
        \cup {<<found.mintAccounts[t], found.mintAccounts[t], "mint">> :
                t \in 1..Len(found.mintAccounts)}))

\* While the requests of a batch are made: the mapping holds no mint of a
\* failed request and holds the mints of the successful requests (all of
\* them, or those the response has an entry for), and the next request is
\* outstanding.  When the batch is done: every request was made, and the
\* entries of the batch hold the defaults for the mints of failed requests
\* and the service's fields for the mints of successful ones.
MetadataFailureIsLocal(MustHold(_)) ==
    /\ fpc = "awaitMetadata" =>
          LET reqs == MetadataCallsOf(fI)
          IN  /\ Len(reqs) = fK
              /\ reqs[fK] \in fInflight
              /\ \A j \in 1..(fK - 1) :
                    \A mint \in Range(fCalls[reqs[j]].list) :
                        IF reqs[j] \in fFailed
                        THEN ~MapHas(fMintInfoMap, mint)
                        ELSE MustHold(mint) =>
                                /\ MapHas(fMintInfoMap, mint)
                                /\ MetadataFields(fMintInfoMap[mint]) = FieldsFromService(mint)
    /\ \A i \in SettledBatches :
          BatchDone(i) =>
             \A am \in ClassifiedOf(i) :
                /\ MapHas(fMap, am[1])
                /\ FieldsOfEntry(fMap[am[1]]) =
                      IF RequestOfMint(i, am[2]) \notin fFailed /\ am[2] \in DOMAIN ServiceData
                      THEN FieldsFromService(am[2])
                      ELSE FieldsByDefault

AnyMint(mint) == TRUE
MintWithEntry(mint) == mint \in DOMAIN ServiceData

\* C15 as claimed: none of the mints of a failed request enters the
\* mapping, the remaining requests are still made, and the mapping holds
\* every mint of every successful request.
C15_MetadataPartialFailure == MetadataFailureIsLocal(AnyMint)

\* C15 as amended: none of the mints of a failed request enters the
\* mapping, the remaining requests are still made, and the mapping holds
\* every mint of a successful request for which the response has an entry.
C15_MetadataPartialFailureKnownMints == MetadataFailureIsLocal(MintWithEntry)

\* The call has returned for the largest input; of the two requests of the
\* second batch the first failed and the second did not: the mint of the
\* first has the defaults, the mint of the second the service's symbol.
C15_Witness ==
    /\ fpc = "returned"
    /\ fN = MaxKeys
    /\ 100 \in SettledBatches
    /\ Len(MetadataCallsOf(100)) = 2
    /\ MetadataCallsOf(100)[1] \in fFailed
    /\ MetadataCallsOf(100)[2] \notin fFailed
    /\ GetKey(fMap[Addr(101)], "symbol") = Str(<<"Unknown">>)
    /\ GetKey(fMap[Addr(151)], "symbol") = Str(<<"TKN">>)

\* The map as far as it is built: enrichmentMap, which is also what the
\* call returns.
Entries == IF fpc = "returned" THEN fResult ELSE fMap

\* The bytes at offsets 64..71 of the record the resolver holds for address.
AmountBytesAt(address) ==
    SubSeq(base64ToBytes(InfoData0(AccountDB[KeyIndex[address]])), 65, 72)

\* Whether the metadata of a mint is unavailable to batch i: its request
\* failed, or the response has no entry for it.
MetadataUnavailable(i, mint) ==
    RequestOfMint(i, mint) \in fFailed \/ mint \notin DOMAIN ServiceData

\* C16: an address classified as token account or mint has a token entry
\* once its batch is done, with its mint and with the icon URL made of the
\* icon base, "/", the mint and ".png"; when the metadata of the mint is
\* unavailable the symbol is "Unknown", the decimals are 0 and the balance
\* of a token account is its amount in decimal digits grouped by threes.
C16_DefaultsForMissingMetadata ==
    \A i \in SettledBatches :
        BatchDone(i) =>
           \A am \in ClassifiedOf(i) :
              /\ MapHas(Entries, am[1])
              /\ LET entry == Entries[am[1]]
                 IN  /\ GetKey(entry, "__isEnriched") = Bool(TRUE)
                     /\ GetKey(entry, "__type") = Str(<<"token">>)
                     /\ GetKey(entry, "mint") = Str(am[2])
                     /\ GetKey(entry, "logoURI") =
                           Str(<<"https://xcdlwgvabmruuularsvn.supabase.co/storage/v1/object/public/p0-tokens",
                                 "/">> \o am[2] \o <<".png">>)
                     /\ MetadataUnavailable(i, am[2]) =>
                           /\ GetKey(entry, "symbol") = Str(<<"Unknown">>)
                           /\ GetKey(entry, "decimals") = Num(0)
                           /\ am[3] = "tokenAccount" =>
                                 LET balance == GetKey(entry, "balance")[2]
                                 IN  /\ GroupedEveryThree(balance)
                                     /\ IsDecimal(WithoutCommas(balance))
                                     /\ SameNumber(DigitsOfString(WithoutCommas(balance)), 10,
                                                   Reverse(AmountBytesAt(am[1])), 256)

\* The call has returned with no failed call: the token account whose mint
\* the service does not know has the defaults and its amount 2^64-1 as
\* balance; a token account whose request failed is reached in other runs.
C16_Witness ==
    /\ fpc = "returned"
    /\ fN >= 10
    /\ fFailed = {}
    /\ MapHas(fResult, Addr(4))
    /\ GetKey(fResult[Addr(4)], "symbol") = Str(<<"Unknown">>)
    /\ GetKey(fResult[Addr(4)], "decimals") = Num(0)
    /\ GetKey(fResult[Addr(4)], "balance") =
          Str(<<"1","8",",","4","4","6",",","7","4","4",",","0","7","3",",",
                "7","0","9",",","5","5","1",",","6","1","5">>)

\* Every address classified as token account or mint by a settled batch,
\* with its mint and its kind.
AllClassified == UNION {ClassifiedOf(i) : i \in SettledBatches}

\* The same without the mints: pairs of address and kind.
AllKinds == {<<am[1], am[3]>> : am \in AllClassified}

\* balance is what the formatter makes of the u64 in amountBytes with d
\* decimals: an integer part without leading zeros, grouped by threes,
\* then, only when the remainder is not 0, "." and at most d digits not
\* ending in 0; integer part and fraction filled up to d digits denote the
\* amount.
IsFormatted(balance, d, amountBytes) ==
    LET dots == DotPositions(balance)
        dot == CHOOSE i \in dots : TRUE
        intPart == IF dots = {} THEN balance ELSE SubSeq(balance, 1, dot - 1)
        frac == IF dots = {} THEN <<>> ELSE SubSeq(balance, dot + 1, Len(balance))
        intDigits == WithoutCommas(intPart)
        padded == frac \o [i \in 1..(d - Len(frac)) |-> "0"]
    IN  /\ Cardinality(dots) <= 1
        /\ GroupedEveryThree(intPart)
        /\ IsDecimal(intDigits)
        /\ dots # {} =>
              /\ Len(frac) \in 1..d
              /\ \A i \in 1..Len(frac) : IsDigit(frac[i])
              /\ frac[Len(frac)] # "0"
        /\ SameNumber(DigitsOfString(intDigits \o padded), 10,
                      Reverse(amountBytes), 256)

\* C17: in the returned map an entry has a balance exactly when its address
\* was classified as token account; the balance is the formatter's result
\* for the record's amount and the decimals of the same entry (250000 with
\* decimals 6 gives "0.25"); the entry of an address classified as mint has
\* its own address as mint and no balance.
C17_BalancePresenceAndValue ==
    fpc = "returned" =>
        \E classified \in {AllKinds} :
        \A k \in DOMAIN fResult :
            LET entry == fResult[k]
                holding == <<k, "tokenAccount">> \in classified
                mintRecord == <<k, "mint">> \in classified
                balance == GetKey(entry, "balance")
                decimals == GetKey(entry, "decimals")
            IN  /\ HasKey(entry, "balance") <=> holding
                /\ holding =>
                      /\ balance[1] = "string"
                      /\ decimals[1] = "number"
                      /\ decimals[2] >= 0
                      /\ IsFormatted(balance[2], decimals[2], AmountBytesAt(k))
                      /\ (AmountBytesAt(k) = Amount250000 /\ decimals = Num(6)) =>
                            balance = Str(<<"0", ".", "2", "5">>)
                /\ mintRecord =>
                      /\ GetKey(entry, "mint") = Str(k)
                      /\ ~HasKey(entry, "balance")

\* The call has returned with no failed call: the token account holding
\* 250000 of a mint with 6 decimals has balance "0.25", and that mint, an
\* input address itself, has an entry without balance.
C17_Witness ==
    /\ fpc = "returned"
    /\ fFailed = {}
    /\ MapHas(fResult, Addr(1))
    /\ AmountBytesAt(Addr(1)) = Amount250000
    /\ GetKey(fResult[Addr(1)], "decimals") = Num(6)
    /\ GetKey(fResult[Addr(1)], "balance") = Str(<<"0", ".", "2", "5">>)
    /\ MapHas(fResult, Addr(2))
    /\ GetKey(fResult[Addr(2)], "mint") = Str(Addr(2))
    /\ ~HasKey(fResult[Addr(2)], "balance")

\* The input addresses for which getLabel returns a label (a non-empty
\* string).
WithLabel == {a \in Range(PubkeyList(fN)) : a \in DOMAIN LabelDB /\ LabelDB[a] # <<>>}

\* C18: when the call has returned and getLabel was passed (fMap is the map
\* as the batches left it, fResult the map after the label pass), an input
\* address with a label and without an entry has the entry {__isEnriched,
\* __type "labeled", pubkey, label} and nothing else; an input address with
\* a label and with an entry has the same entry as before, of type token,
\* with the same keys and values except that label is the label.
C18_LabelPass ==
    (fpc = "returned" /\ fUseLabel) =>
        \A a \in WithLabel :
            /\ MapHas(fResult, a)
            /\ GetKey(fResult[a], "label") = Str(LabelDB[a])
            /\ GetKey(fResult[a], "pubkey") = Str(a)
            /\ GetKey(fResult[a], "__isEnriched") = Bool(TRUE)
            /\ IF MapHas(fMap, a)
               THEN /\ GetKey(fResult[a], "__type") = Str(<<"token">>)
                    /\ GetKey(fMap[a], "__type") = Str(<<"token">>)
                    /\ Range(Keys(fResult[a])) = Range(Keys(fMap[a])) \cup {"label"}
                    /\ \A key \in Range(Keys(fMap[a])) \ {"label"} :
                          GetKey(fResult[a], key) = GetKey(fMap[a], key)
               ELSE /\ GetKey(fResult[a], "__type") = Str(<<"labeled">>)
                    /\ Range(Keys(fResult[a])) =
                          {"__isEnriched", "__type", "pubkey", "label"}

\* The call has returned with no failed call: the token account labeled
\* "Vault" keeps its balance and has the label, and the address labeled
\* "Treasury", which the resolver does not know, has a labeled entry.
C18_Witness ==
    /\ fpc = "returned"
    /\ fUseLabel
    /\ fFailed = {}
    /\ fN >= 3
    /\ MapHas(fMap, Addr(1))
    /\ GetKey(fResult[Addr(1)], "label") = Str(<<"Vault">>)
    /\ GetKey(fResult[Addr(1)], "balance") = Str(<<"0", ".", "2", "5">>)
    /\ ~MapHas(fMap, Addr(3))
    /\ GetKey(fResult[Addr(3)], "__type") = Str(<<"labeled">>)
    /\ GetKey(fResult[Addr(3)], "label") = Str(<<"Treasury">>)

\* C19: the keys of the returned map are exactly the input addresses that
\* a batch resolved and classified as token account or mint, together with,
\* when getLabel was passed, the input addresses that have a label; and at
\* every point the keys of the map are input addresses.
C19_ExactKeySet ==
    /\ DOMAIN fMap \subseteq Range(PubkeyList(fN))
    /\ DOMAIN fResult \subseteq Range(PubkeyList(fN))
    /\ fpc = "returned" =>
          DOMAIN fResult =
             {am[1] : am \in AllKinds} \cup (IF fUseLabel THEN WithLabel ELSE {})

\* The call has returned with getLabel passed and no failed call: a token
\* account and a labeled unknown address are keys; an address with a record
\* of another owner and an empty label, an address whose record cannot be
\* classified, and an unknown address without label are not.
C19_Witness ==
    /\ fpc = "returned"
    /\ fUseLabel
    /\ fFailed = {}
    /\ fN >= 11
    /\ MapHas(fResult, Addr(1))
    /\ MapHas(fResult, Addr(3))
    /\ ~MapHas(fResult, Addr(5))
    /\ ~MapHas(fResult, Addr(7))
    /\ ~MapHas(fResult, Addr(11))

\* C20: at every point of the call and in the returned map, every entry v
\* under key k has pubkey k and __isEnriched true, so stripEnrichment(v) is
\* k.
C20_AddressVerbatim ==
    \A map \in {fMap, fResult} :
        \A k \in DOMAIN map :
            /\ GetKey(map[k], "pubkey") = Str(k)
            /\ GetKey(map[k], "__isEnriched") = Bool(TRUE)
            /\ stripEnrichment(map[k]) = Str(k)

\* The call has returned with getLabel passed: the map holds a token
\* account, a mint and a labeled address, each stripped to its key.
C20_Witness ==
    /\ fpc = "returned"
    /\ fUseLabel
    /\ MapHas(fResult, Addr(1))
    /\ HasKey(fResult[Addr(1)], "balance")
    /\ GetKey(fResult[Addr(1)], "mint") = Str(Addr(2))
    /\ stripEnrichment(fResult[Addr(1)]) = Str(Addr(1))
    /\ MapHas(fResult, Addr(2))
    /\ stripEnrichment(fResult[Addr(2)]) = Str(Addr(2))
    /\ MapHas(fResult, Addr(3))
    /\ GetKey(fResult[Addr(3)], "__type") = Str(<<"labeled">>)
    /\ stripEnrichment(fResult[Addr(3)]) = Str(Addr(3))

-----------------------------------------------------------------------------
(* extractPubkeys (lines 45-68) *)

\* The letters and digits in the order of their character codes.
AsciiAlnum ==
    << "0","1","2","3","4","5","6","7","8","9",
       "A","B","C","D","E","F","G","H","I","J","K","L","M","N","O","P","Q",
       "R","S","T","U","V","W","X","Y","Z",
       "a","b","c","d","e","f","g","h","i","j","k","l","m","n","o","p","q",
       "r","s","t","u","v","w","x","y","z" >>

\* c lies in the range lo-hi of a character class (lo, hi letters or digits
\* of one kind, so no other character lies between them).
AlnumRank == AsTable([c \in {AsciiAlnum[i] : i \in 1..Len(AsciiAlnum)} |->
                        CHOOSE i \in 1..Len(AsciiAlnum) : AsciiAlnum[i] = c])
InRange(c, lo, hi) ==
    /\ c \in DOMAIN AlnumRank
    /\ AlnumRank[lo] <= AlnumRank[c]
    /\ AlnumRank[c] <= AlnumRank[hi]

\* [1-9A-HJ-NP-Za-km-z]
Base58Class(c) ==
    \/ InRange(c, "1", "9")
    \/ InRange(c, "A", "H")
    \/ InRange(c, "J", "N")
    \/ InRange(c, "P", "Z")
    \/ InRange(c, "a", "k")
    \/ InRange(c, "m", "z")

\* BASE58_REGEX.test(s): /^[1-9A-HJ-NP-Za-km-z]{32,44}$/ has no flags, so
\* "^" and "$" are the two ends of the string.
Base58RegexTestAnyLength(s) == \A i \in 1..Len(s) : Base58Class(s[i])
Base58RegexTest(s) ==
    /\ Len(s) >= 32
    /\ Len(s) <= 44
    /\ \A i \in 1..Len(s) : Base58Class(s[i])

\* Lines 50-52: what a string adds to the set.
AddIfAddress(s) == IF Base58RegexTest(s) THEN {s} ELSE {}

\* The elements obj.forEach visits.
ArrayItemsButFirst(obj) == IF obj[2] = <<>> THEN <<>> ELSE Tail(obj[2])
ArrayItems(obj) == obj[2]

\* Object.values(obj)
ObjectValues(obj) == [i \in 1..Len(obj[2]) |-> obj[2][i][2]]

\* Lines 48-64: the strings one call of traverse adds to pubkeys.
RECURSIVE traverse(_)
traverse(obj) ==
    IF IsString(obj) THEN AddIfAddress(obj[2])
    ELSE IF IsArray(obj)
         THEN UNION {traverse(ArrayItems(obj)[i]) : i \in 1..Len(ArrayItems(obj))}
    ELSE IF IsPlainObject(obj)
         THEN UNION {traverse(ObjectValues(obj)[i]) : i \in 1..Len(ObjectValues(obj))}
    ELSE {}

\* Lines 45-68: pubkeys starts empty and is a Set.
extractPubkeys(data) == traverse(data)

\* Array.from(set): the members in some order, each once.
RECURSIVE ArrayFrom(_)
ArrayFrom(set) ==
    IF set = {} THEN <<>>
    ELSE LET x == CHOOSE y \in set : TRUE
         IN  <<x>> \o ArrayFrom(set \ {x})

-----------------------------------------------------------------------------
(* Specification SpecExtract: extractPubkeys on one tree, and on the array  *)
(* of its own result.                                                       *)

Repeat(n, c) == [i \in 1..n |-> c]

\* The leaves of the generated trees: addresses of 32, 33 and 44
\* characters; strings of 31 and 45 characters of the alphabet; strings of
\* 32 characters one of which is 0, O, I or l; an address followed by a line
\* feed, one in parentheses, the empty string; other scalars.
ExtractLeaves ==
    { Str(Addr(1)), Str(Addr(2)), Str(Addr(100)),
      Str(Repeat(44, "z")), Str(Repeat(45, "z")), Str(Repeat(31, "A")),
      Str(Repeat(31, "9") \o <<"0">>), Str(Repeat(31, "N") \o <<"O">>),
      Str(<<"I">> \o Repeat(31, "H")), Str(Repeat(20, "k") \o <<"l">> \o Repeat(11, "m")),
      Str(Addr(1) \o <<"\n">>), Str(<<"(">> \o Addr(3) \o <<")">>), Str(<<>>),
      Num(7), Bool(TRUE), Null, Undefined }

\* One container around t: arrays, one holding t twice; keyed maps, one
\* with an address as key; an array that also holds an annotation.
ExtractContexts == 1..5
WrapForExtract(c, t) ==
    CASE c = 1 -> Arr(<<t>>)
      [] c = 2 -> Arr(<<t, Num(1), t>>)
      [] c = 3 -> Obj(<< <<Addr(11), t>> >>)
      [] c = 4 -> Obj(<< <<"amount", Num(5)>>, <<"mint", t>>,
                         <<"authority", Str(Addr(2))>> >>)
      [] c = 5 -> Arr(<<LabeledEntry(Addr(3), Str(<<"Treasury">>)), t>>)

RECURSIVE ExtractTreesOfDepth(_)
ExtractTreesOfDepth(d) ==
    IF d = 0 THEN ExtractLeaves
    ELSE LET inner == ExtractTreesOfDepth(d - 1)
         IN  inner \cup {WrapForExtract(c, t) : c \in ExtractContexts, t \in inner}

InitExtract ==
    /\ TreeIdle
    /\ ClassIdle
    /\ FetchIdle
    /\ AmountIdle
    /\ HeapIdle
    /\ DataIdle
    /\ AccountsIdle
    /\ PageIdle
    /\ xTree \in ExtractTreesOfDepth(MaxDepth)
    /\ xSet = {}
    /\ xAgain = {}
    /\ xstage = "input"

\* pubkeys = extractPubkeys(decoded)
Extract ==
    /\ xstage = "input"
    /\ xSet' = extractPubkeys(xTree)
    /\ xstage' = "extracted"
    /\ UNCHANGED <<xTree, xAgain>>
    /\ UNCHANGED <<treeVars, classVars, fetchVars, amountVars, heapVars, dataVars, accountsVars, pageVars>>

\* extractPubkeys(Array.from(pubkeys))
ExtractAgain ==
    /\ xstage = "extracted"
    /\ xAgain' = extractPubkeys(Arr([i \in 1..Cardinality(xSet) |-> Str(ArrayFrom(xSet)[i])]))
    /\ xstage' = "again"
    /\ UNCHANGED <<xTree, xSet>>
    /\ UNCHANGED <<treeVars, classVars, fetchVars, amountVars, heapVars, dataVars, accountsVars, pageVars>>

NextExtract == Extract \/ ExtractAgain

SpecExtract == InitExtract /\ [][NextExtract]_vars

-----------------------------------------------------------------------------
(* Claims about extractPubkeys, checked under SpecExtract *)

\* The string values that occur in t: the root, an array element or the
\* value of a key, at any depth.
RECURSIVE StringValues(_)
StringValues(t) ==
    IF IsString(t) THEN {t[2]}
    ELSE IF IsContainer(t)
         THEN UNION {StringValues(Child(t, i)) : i \in 1..Len(t[2])}
    ELSE {}

\* The address shape: 32 to 44 characters of the base-58 alphabet.
HasAddressShape(s) ==
    /\ Len(s) \in 32..44
    /\ \A i \in 1..Len(s) : \E d \in 1..Len(B58Alphabet) : B58Alphabet[d] = s[i]

\* C22: extractPubkeys(T) is exactly the set of the strings that occur as a
\* value in T (not as a key) and have the address shape.
C22_ExtractorResult ==
    xstage \in {"extracted", "again"} =>
        xSet = {s \in StringValues(xTree) : HasAddressShape(s)}

\* Extracted: a tree with an address as a key, the same address twice as
\* array elements below it, and a string of 45 characters; the result is
\* the one address.
C22_Witness ==
    /\ xstage = "extracted"
    /\ xTree = WrapForExtract(3, WrapForExtract(2, Str(Addr(1))))
    /\ Keys(xTree) = <<Addr(11)>>
    /\ HasAddressShape(Addr(11))
    /\ xSet = {Addr(1)}

\* C23: extractPubkeys applied to the array of the members of an extracted
\* set S returns S.
C23_ExtractionIdempotent ==
    xstage = "again" => xAgain = xSet

\* The second extraction has run on a set of three addresses.
C23_Witness ==
    /\ xstage = "again"
    /\ xSet = {Addr(1), Addr(2), Addr(3)}
    /\ xAgain = xSet

-----------------------------------------------------------------------------
(* injectEnrichment and stripEnrichment on containers with identity: an     *)
(* array or object is a cell of a heap, a value is a scalar or a reference  *)
(* to a cell, and the elements of a cell are such values.                   *)

Ref(id) == <<"ref", id>>
IsRef(v) == v[1] = "ref"

\* The value tree a value denotes.
RECURSIVE Load(_, _)
Load(heap, v) ==
    IF ~IsRef(v) THEN v
    ELSE LET cell == heap[v[2]]
         IN  IF IsArray(cell)
             THEN Arr([i \in 1..Len(cell[2]) |-> Load(heap, cell[2][i])])
             ELSE Obj([i \in 1..Len(cell[2]) |->
                         <<cell[2][i][1], Load(heap, cell[2][i][2])>>])

\* The elements of an array cell, the property values of an object cell.
CellValues(cell) ==
    IF IsArray(cell) THEN cell[2] ELSE [i \in 1..Len(cell[2]) |-> cell[2][i][2]]

\* The cell of the same kind and keys with other values.
CellWith(cell, vals) ==
    IF IsArray(cell) THEN Arr(vals)
    ELSE Obj([i \in 1..Len(cell[2]) |-> <<cell[2][i][1], vals[i]>>])

\* data.map(...) and "const newObj = {}; newObj[key] = ...; return newObj":
\* the result is a container that did not exist before; the source is left
\* as it is.
StoreResultInPlace(heap, source, cell) ==
    [heap |-> [heap EXCEPT ![source] = cell], val |-> Ref(source)]
StoreResult(heap, source, cell) ==
    [heap |-> Append(heap, cell), val |-> Ref(Len(heap) + 1)]

RECURSIVE InjectValue(_, _, _)
RECURSIVE InjectItems(_, _, _)

\* The calls of injectEnrichment for the items, one after the other.
InjectItems(heap, items, map) ==
    IF items = <<>> THEN [heap |-> heap, vals |-> <<>>]
    ELSE LET first == InjectValue(heap, Head(items), map)
             rest == InjectItems(first.heap, Tail(items), map)
         IN  [heap |-> rest.heap, vals |-> <<first.val>> \o rest.vals]

\* injectEnrichment (lines 362-392): map.get returns the annotation held by
\* the map itself.
InjectValue(heap, data, map) ==
    IF IsString(data)
    THEN [heap |-> heap,
          val |-> IF MapHas(map, data[2]) THEN map[data[2]]
                  ELSE IF HasMatch(data[2]) /\ MapHas(map, MatchGroup1(data[2]))
                       THEN map[MatchGroup1(data[2])]
                  ELSE data]
    ELSE IF IsRef(data)
    THEN LET r == InjectItems(heap, CellValues(heap[data[2]]), map)
         IN  StoreResult(r.heap, data[2], CellWith(heap[data[2]], r.vals))
    ELSE [heap |-> heap, val |-> data]

RECURSIVE StripValue(_, _)
RECURSIVE StripItems(_, _)

StripItems(heap, items) ==
    IF items = <<>> THEN [heap |-> heap, vals |-> <<>>]
    ELSE LET first == StripValue(heap, Head(items))
             rest == StripItems(first.heap, Tail(items))
         IN  [heap |-> rest.heap, vals |-> <<first.val>> \o rest.vals]

\* stripEnrichment (lines 326-357).
StripValue(heap, data) ==
    IF IsRef(data)
    THEN IF IsEnrichedNode(heap[data[2]])
         THEN [heap |-> heap, val |-> GetKey(heap[data[2]], "pubkey")]
         ELSE LET r == StripItems(heap, CellValues(heap[data[2]]))
              IN  StoreResult(r.heap, data[2], CellWith(heap[data[2]], r.vals))
    ELSE [heap |-> heap, val |-> data]

-----------------------------------------------------------------------------
(* Specification SpecHeap: injectEnrichment, then stripEnrichment of its    *)
(* result, on a tree and a map built before the calls.                      *)

RECURSIVE Construct(_, _)
RECURSIVE ConstructItems(_, _)

ConstructItems(heap, items) ==
    IF items = <<>> THEN [heap |-> heap, vals |-> <<>>]
    ELSE LET first == Construct(heap, Head(items))
             rest == ConstructItems(first.heap, Tail(items))
         IN  [heap |-> rest.heap, vals |-> <<first.val>> \o rest.vals]

\* The heap after the value tree t has been built, and the value that
\* denotes it.
Construct(heap, t) ==
    IF IsContainer(t)
    THEN LET r == ConstructItems(heap, CellValues(t))
         IN  [heap |-> Append(r.heap, CellWith(t, r.vals)), val |-> Ref(Len(r.heap) + 1)]
    ELSE [heap |-> heap, val |-> t]

\* The annotations of entries as cells, in the order of keys, and the Map
\* that refers to them.
ConstructMap(entries) ==
    LET keys == ArrayFrom(DOMAIN entries)
    IN  [heap |-> [i \in 1..Len(keys) |-> entries[keys[i]]],
         map |-> AsTable([k \in DOMAIN entries |->
                            Ref(CHOOSE i \in 1..Len(keys) : keys[i] = k)])]

InitHeap ==
    /\ TreeIdle
    /\ ClassIdle
    /\ FetchIdle
    /\ AmountIdle
    /\ ExtractIdle
    /\ DataIdle
    /\ AccountsIdle
    /\ PageIdle
    /\ \E entries \in TreeMaps, t \in TreesOfDepth(MaxDepth) :
          \E m \in {ConstructMap(entries)} :
          \E c \in {Construct(m.heap, t)} :
             /\ hHeap = c.heap
             /\ hMap = m.map
             /\ hRoot = c.val
    /\ hInjected = Null
    /\ hStripped = Null
    /\ hstage = "input"

\* enriched = injectEnrichment(raw, enrichMap)
HeapInject ==
    /\ hstage = "input"
    /\ \E r \in {InjectValue(hHeap, hRoot, hMap)} :
          /\ hHeap' = r.heap
          /\ hInjected' = r.val
    /\ hstage' = "injected"
    /\ UNCHANGED <<hMap, hRoot, hStripped>>
    /\ UNCHANGED <<treeVars, classVars, fetchVars, amountVars, extractVars, dataVars, accountsVars, pageVars>>

\* stripEnrichment(enriched)
HeapStrip ==
    /\ hstage = "injected"
    /\ \E r \in {StripValue(hHeap, hInjected)} :
          /\ hHeap' = r.heap
          /\ hStripped' = r.val
    /\ hstage' = "stripped"
    /\ UNCHANGED <<hMap, hRoot, hInjected>>
    /\ UNCHANGED <<treeVars, classVars, fetchVars, amountVars, extractVars, dataVars, accountsVars, pageVars>>

NextHeap == HeapInject \/ HeapStrip

SpecHeap == InitHeap /\ [][NextHeap]_vars

-----------------------------------------------------------------------------
(* Claims about inject and strip as operations on containers, checked       *)
(* under SpecHeap                                                           *)

\* The cells reachable from a value.
RECURSIVE Reach(_, _)
Reach(heap, v) ==
    IF ~IsRef(v) THEN {}
    ELSE {v[2]} \cup UNION {Reach(heap, CellValues(heap[v[2]])[i]) :
                               i \in 1..Len(CellValues(heap[v[2]]))}

\* The cells of the annotations the Map holds.
AnnotationCells == {hMap[k][2] : k \in DOMAIN hMap}

-----------------------------------------------------------------------------
(* Further claims about inject and strip, checked under SpecTree *)

\* The keys k of M for which the string s is some text followed by "(" k ")"
\* at its very end.
WrappedKeys(s, map) ==
    {k \in DOMAIN map :
        /\ Len(s) >= Len(k) + 2
        /\ s[Len(s)] = ")"
        /\ s[Len(s) - Len(k) - 1] = "("
        /\ SubSeq(s, Len(s) - Len(k), Len(s) - 1) = k}

\* C21 as claimed: a string leaf that is some text, whatever it holds,
\* followed by "(" k ")" at its end with k a key of M is replaced by M[k]; a
\* string leaf that is no key and does not end so is unchanged.
C21_WrappedFormInjection ==
    "inject" \in tstage =>
        \A p \in LeafPairs(tree, injected) :
            /\ p # ShapeLost
            /\ IsString(p[1]) =>
                  /\ \A k \in WrappedKeys(p[1][2], emap) : p[2] = emap[k]
                  /\ (WrappedKeys(p[1][2], emap) = {} /\ ~MapHas(emap, p[1][2])) =>
                        p[2] = p[1]

\* An annotation node: a keyed map with __isEnriched true and a pubkey.
IsAnnotationNode(v) ==
    /\ IsPlainObject(v)
    /\ \E i \in 1..Len(v[2]) : v[2][i] = <<"__isEnriched", Bool(TRUE)>>
    /\ \E i \in 1..Len(v[2]) : v[2][i][1] = "pubkey"

\* Every node of t: t, and the nodes of the children of a container.
RECURSIVE Nodes(_)
Nodes(t) ==
    {t} \cup (IF IsContainer(t)
              THEN UNION {Nodes(Child(t, i)) : i \in 1..Len(t[2])}
              ELSE {})

NoAnnotationNode(t) == \A v \in Nodes(t) : ~IsAnnotationNode(v)
AnnotationsCarryStrings(t) ==
    \A v \in Nodes(t) : IsAnnotationNode(v) => IsString(GetKey(v, "pubkey"))

\* C27: for the input tree, the injected tree and the twice injected tree,
\* and for the stripped tree once stripEnrichment has run: stripping a tree
\* without annotation node gives an equal tree; stripping a tree whose
\* annotation nodes all carry a string as pubkey gives a tree without
\* annotation node, which stripping again leaves as it is.
C27_StripNormalForm ==
    /\ \A t \in {tree, injected, reinjected} :
          /\ NoAnnotationNode(t) => stripEnrichment(t) = t
          /\ AnnotationsCarryStrings(t) =>
                /\ NoAnnotationNode(stripEnrichment(t))
                /\ stripEnrichment(stripEnrichment(t)) = stripEnrichment(t)
    /\ "strip" \in tstage =>
          /\ NoAnnotationNode(injected) => stripped = injected
          /\ AnnotationsCarryStrings(injected) =>
                /\ NoAnnotationNode(stripped)
                /\ stripEnrichment(stripped) = stripped

\* stripEnrichment has run on a tree that holds an annotation below two
\* containers, one of them a keyed map with __isEnriched true and no pubkey:
\* the result holds no annotation node and that keyed map is still there.
C27_Witness ==
    /\ "strip" \in tstage
    /\ tree = Wrap(5, Wrap(1, Str(Addr(1))))
    /\ IsAnnotationNode(Child(Child(injected, 2), 1))
    /\ AnnotationsCarryStrings(injected)
    /\ NoAnnotationNode(stripped)
    /\ stripped = tree

-----------------------------------------------------------------------------
(* One more claim about fetchEnrichmentMap, checked under SpecFetch *)

\* C26: metadata requests are made for a batch only when one of its
\* addresses was classified as token account or mint; they carry mints of
\* the batch only, each mint in at most one of them and, once the batch is
\* done, in exactly one; a batch has at most 2 of them, and the call makes
\* at most 3 * ceil(n / 100) external calls.
C26_MetadataRequestsPerBatch ==
    /\ \A i \in SettledBatches :
          \E classified \in {ClassifiedOf(i)} :
          \E reqs \in {MetadataCallsOf(i)} :
             LET mints == {am[2] : am \in classified}
                 RequestsWith(mint) ==
                     {j \in 1..Len(reqs) : mint \in Range(fCalls[reqs[j]].list)}
             IN  /\ Len(reqs) > 0 => classified # {}
                 /\ Len(reqs) <= 2
                 /\ \A j \in 1..Len(reqs) : Range(fCalls[reqs[j]].list) \subseteq mints
                 /\ \A mint \in mints :
                       /\ Cardinality(RequestsWith(mint)) <= 1
                       /\ BatchDone(i) => Cardinality(RequestsWith(mint)) = 1
    /\ \A c \in 1..Len(fCalls) :
          ~IsResolverCall(fCalls[c]) => fCalls[c].batch \in SettledBatches
    /\ Len(fCalls) <= 3 * ((fN + 99) \div 100)

\* The call has returned for the largest input: the first batch had one
\* request, the second two (60 mints), the third one, and a batch whose
\* resolver call failed is reached in other runs with no request.
C26_Witness ==
    /\ fpc = "returned"
    /\ fN = MaxKeys
    /\ fFailed = {}
    /\ Len(MetadataCallsOf(0)) = 1
    /\ Len(MetadataCallsOf(100)) = 2
    /\ Len(MetadataCallsOf(200)) = 1
    /\ Len(fCalls) = 7

-----------------------------------------------------------------------------
(* Specification SpecData: the hook useAccountData (src/unnamed/part_001).   *)
(* The component renders with a pubkey and an account type; the effect of   *)
(* lines 248-259 runs after the first render and after every render that    *)
(* changes them.  A call of fetchAccountData or fetchHistory runs up to its *)
(* next await in one step; the state setters it calls take effect whatever  *)
(* render the call was started from.  programId is held fixed.              *)

\* How many times the inputs change or refetch is called.
MaxStarts == 2

Pubkeys == {"P", "Q"}
AccountTypes == {"Vault"}

NoData == <<"null">>
\* The object of lines 180-186 for the account the call was made for.
DataFor(pubkey, type) == <<"data", pubkey, type>>
EmptyMap == <<"empty">>
\* The map fetchEnrichmentMap returned for the addresses of that account.
MapFor(pubkey) == <<"map", pubkey>>

RemoveAt(seq, k) == SubSeq(seq, 1, k - 1) \o SubSeq(seq, k + 1, Len(seq))

InitData ==
    /\ TreeIdle
    /\ ClassIdle
    /\ FetchIdle
    /\ AmountIdle
    /\ ExtractIdle
    /\ HeapIdle
    /\ AccountsIdle
    /\ PageIdle
    /\ dPubkey \in Pubkeys \cup {"none"}
    /\ dAccountType \in AccountTypes \cup {"none"}
    /\ dCoder \in BOOLEAN
    /\ dData = NoData
    /\ dHistory = <<>>
    /\ dLoading = FALSE
    /\ dHistoryLoading = FALSE
    /\ dError = "null"
    /\ dEnrichmentMap = EmptyMap
    /\ dDetectedType = "none"
    /\ dRuns = <<>>
    /\ dHistoryRuns = <<>>
    /\ dStarted = 0
    /\ dstage = "rendered"

\* fetchAccountData() up to its first await (lines 120-131), called from a
\* render with the given pubkey and accountType, after data has been set to
\* data.
CallFetchAccountData(pubkey, accountType, data) ==
    IF pubkey = "none" \/ ~dCoder
    THEN /\ dData' = NoData
         /\ UNCHANGED <<dLoading, dError, dRuns>>
    ELSE /\ dData' = data
         /\ dLoading' = TRUE
         /\ dError' = "null"
         /\ dRuns' = Append(dRuns, [pubkey |-> pubkey, accountType |-> accountType,
                                    typeToUse |-> "none", pc |-> "fetch"])

\* fetchHistory() up to its first await (lines 197-207).
CallFetchHistory(pubkey) ==
    /\ dHistory' = <<>>
    /\ IF pubkey = "none"
       THEN UNCHANGED <<dHistoryLoading, dHistoryRuns>>
       ELSE /\ dHistoryLoading' = TRUE
            /\ dHistoryRuns' = Append(dHistoryRuns, [pubkey |-> pubkey, pc |-> "fetch"])

\* The effect of lines 248-259 in a render with the given inputs.
RunEffect(pubkey, accountType) ==
    /\ dEnrichmentMap' = EmptyMap
    /\ dDetectedType' = "none"
    /\ IF pubkey # "none"
       THEN /\ CallFetchAccountData(pubkey, accountType, NoData)
            /\ CallFetchHistory(pubkey)
       ELSE /\ dData' = NoData
            /\ dHistory' = <<>>
            /\ UNCHANGED <<dLoading, dError, dRuns, dHistoryLoading, dHistoryRuns>>

\* The first render and its effect.
Mount ==
    /\ dstage = "rendered"
    /\ dstage' = "mounted"
    /\ RunEffect(dPubkey, dAccountType)
    /\ UNCHANGED <<dPubkey, dAccountType, dCoder, dStarted>>
    /\ UNCHANGED <<treeVars, classVars, fetchVars, amountVars, extractVars, heapVars, accountsVars, pageVars>>

\* A render with another pubkey or account type, and its effect.
ChangeInputs ==
    /\ dstage = "mounted"
    /\ dStarted < MaxStarts
    /\ \E pubkey \in Pubkeys \cup {"none"}, accountType \in AccountTypes \cup {"none"} :
          /\ <<pubkey, accountType>> # <<dPubkey, dAccountType>>
          /\ dPubkey' = pubkey
          /\ dAccountType' = accountType
          /\ RunEffect(pubkey, accountType)
    /\ dStarted' = dStarted + 1
    /\ UNCHANGED <<dCoder, dstage>>
    /\ UNCHANGED <<treeVars, classVars, fetchVars, amountVars, extractVars, heapVars, accountsVars, pageVars>>

\* refetch(): fetchAccountData of the current render.
Refetch ==
    /\ dstage = "mounted"
    /\ dStarted < MaxStarts
    /\ CallFetchAccountData(dPubkey, dAccountType, dData)
    /\ dStarted' = dStarted + 1
    /\ UNCHANGED <<dPubkey, dAccountType, dCoder, dHistory, dHistoryLoading,
                   dEnrichmentMap, dDetectedType, dHistoryRuns, dstage>>
    /\ UNCHANGED <<treeVars, classVars, fetchVars, amountVars, extractVars, heapVars, accountsVars, pageVars>>

\* A call of fetchAccountData ends: data and error as given, then the
\* finally block of lines 190-192.
EndRun(k, data, error) ==
    /\ dData' = data
    /\ dError' = error
    /\ dLoading' = FALSE
    /\ dRuns' = RemoveAt(dRuns, k)

\* The fetch of line 129 settles (lines 133-140, 187-192).
FetchSettles ==
    /\ \E k \in 1..Len(dRuns) :
          /\ dRuns[k].pc = "fetch"
          /\ \E outcome \in {"ok", "notFound", "notOk", "rejected"} :
                CASE outcome = "ok" ->
                        /\ dRuns' = [dRuns EXCEPT ![k].pc = "json"]
                        /\ UNCHANGED <<dData, dError, dLoading>>
                  [] outcome = "notFound" -> EndRun(k, NoData, "Account not found")
                  [] outcome = "notOk" -> EndRun(k, NoData, "Failed to fetch account data")
                  [] outcome = "rejected" -> EndRun(k, NoData, "Unknown error")
    /\ UNCHANGED <<dPubkey, dAccountType, dCoder, dHistory, dHistoryLoading,
                   dEnrichmentMap, dDetectedType, dHistoryRuns, dStarted, dstage>>
    /\ UNCHANGED <<treeVars, classVars, fetchVars, amountVars, extractVars, heapVars, accountsVars, pageVars>>

\* res.json() of line 142 settles (lines 144-174, 187-192): the body cannot
\* be read; it has no data; no account type is given and none is detected;
\* the data cannot be decoded; or it is decoded and fetchEnrichmentMap is
\* called.
JsonSettles ==
    /\ \E k \in 1..Len(dRuns) :
          /\ dRuns[k].pc = "json"
          /\ \E outcome \in {"rejected", "noData", "noType", "undecodable", "decoded"} :
                CASE outcome = "rejected" ->
                        /\ EndRun(k, NoData, "Unknown error")
                        /\ UNCHANGED dDetectedType
                  [] outcome = "noData" ->
                        /\ EndRun(k, NoData, "No data available")
                        /\ UNCHANGED dDetectedType
                  [] outcome = "noType" ->
                        /\ dRuns[k].accountType = "none"
                        /\ EndRun(k, dData, "Could not determine account type")
                        /\ UNCHANGED dDetectedType
                  [] outcome = "undecodable" ->
                        /\ \E type \in AccountTypes :
                              /\ dRuns[k].accountType \in {"none", type}
                              /\ dDetectedType' = IF dRuns[k].accountType = "none"
                                                  THEN type ELSE dDetectedType
                        /\ EndRun(k, dData, "Failed to decode account data")
                  [] outcome = "decoded" ->
                        /\ \E type \in AccountTypes :
                              /\ dRuns[k].accountType \in {"none", type}
                              /\ dDetectedType' = IF dRuns[k].accountType = "none"
                                                  THEN type ELSE dDetectedType
                              /\ dRuns' = [dRuns EXCEPT ![k].pc = "enrich",
                                                        ![k].typeToUse = type]
                        /\ UNCHANGED <<dData, dError, dLoading>>
    /\ UNCHANGED <<dPubkey, dAccountType, dCoder, dHistory, dHistoryLoading,
                   dEnrichmentMap, dHistoryRuns, dStarted, dstage>>
    /\ UNCHANGED <<treeVars, classVars, fetchVars, amountVars, extractVars, heapVars, accountsVars, pageVars>>

\* fetchEnrichmentMap of line 174 returns (lines 175-186, 190-192); it does
\* not reject.
EnrichSettles ==
    /\ \E k \in 1..Len(dRuns) :
          /\ dRuns[k].pc = "enrich"
          /\ dEnrichmentMap' = MapFor(dRuns[k].pubkey)
          /\ dData' = DataFor(dRuns[k].pubkey, dRuns[k].typeToUse)
          /\ dLoading' = FALSE
          /\ dRuns' = RemoveAt(dRuns, k)
    /\ UNCHANGED <<dPubkey, dAccountType, dCoder, dHistory, dHistoryLoading, dError,
                   dDetectedType, dHistoryRuns, dStarted, dstage>>
    /\ UNCHANGED <<treeVars, classVars, fetchVars, amountVars, extractVars, heapVars, accountsVars, pageVars>>

\* The fetch of line 205 settles (lines 209-222).
HistoryFetchSettles ==
    /\ \E k \in 1..Len(dHistoryRuns) :
          /\ dHistoryRuns[k].pc = "fetch"
          /\ \E outcome \in {"ok", "notOk", "rejected"} :
                IF outcome = "ok"
                THEN /\ dHistoryRuns' = [dHistoryRuns EXCEPT ![k].pc = "json"]
                     /\ UNCHANGED <<dHistory, dHistoryLoading>>
                ELSE /\ dHistory' = <<>>
                     /\ dHistoryLoading' = FALSE
                     /\ dHistoryRuns' = RemoveAt(dHistoryRuns, k)
    /\ UNCHANGED <<dPubkey, dAccountType, dCoder, dData, dLoading, dError,
                   dEnrichmentMap, dDetectedType, dRuns, dStarted, dstage>>
    /\ UNCHANGED <<treeVars, classVars, fetchVars, amountVars, extractVars, heapVars, accountsVars, pageVars>>

\* res.json() of line 215 settles (lines 216-222): history is the snapshots
\* of the account the call was made for, or empty.
HistoryJsonSettles ==
    /\ \E k \in 1..Len(dHistoryRuns) :
          /\ dHistoryRuns[k].pc = "json"
          /\ \E outcome \in {"history", "noHistory", "rejected"} :
                dHistory' = IF outcome = "history" THEN <<dHistoryRuns[k].pubkey>> ELSE <<>>
          /\ dHistoryLoading' = FALSE
          /\ dHistoryRuns' = RemoveAt(dHistoryRuns, k)
    /\ UNCHANGED <<dPubkey, dAccountType, dCoder, dData, dLoading, dError,
                   dEnrichmentMap, dDetectedType, dRuns, dStarted, dstage>>
    /\ UNCHANGED <<treeVars, classVars, fetchVars, amountVars, extractVars, heapVars, accountsVars, pageVars>>

NextData ==
    \/ Mount
    \/ ChangeInputs
    \/ Refetch
    \/ FetchSettles
    \/ JsonSettles
    \/ EnrichSettles
    \/ HistoryFetchSettles
    \/ HistoryJsonSettles

SpecData == InitData /\ [][NextData]_vars

-----------------------------------------------------------------------------
(* Claims about useAccountData, checked under SpecData *)

\* C25 as claimed: the data and the enrichment map the hook holds are those
\* of a call made for the pubkey of the current render, or the empty ones
\* the effect sets; a call made for an earlier pubkey installs nothing
\* after the effect.
C25_MapLifecycleAcrossAccountChanges ==
    /\ dData # NoData => dData[2] = dPubkey
    /\ dEnrichmentMap # EmptyMap => dEnrichmentMap[2] = dPubkey

-----------------------------------------------------------------------------
(* Specification SpecAccounts: the hook useAccounts                          *)
(* (src/src/hooks/use-accounts.ts).  The component renders with an account  *)
(* type and a search text; the effect of lines 154-179 runs after the first *)
(* render and after every render that changes them.  A call of              *)
(* fetchAccounts runs up to its next await in one step.  programId is held  *)
(* fixed, so the cache is never cleared.                                    *)

AccountKinds == {"A", "B"}
\* search?.trim() || "" of the renders: nothing, two characters, and two
\* texts of three characters.
Queries == {<<>>, <<"a", "b">>, <<"a", "b", "c">>, <<"x", "y", "z">>}

\* Line 53, line 161.
IsSearch(searchQuery) == Len(searchQuery) >= 3

\* What a call asks the server for: /api/search with q (lines 91-99) or
\* /api/accounts with the type (lines 120-122); nothing otherwise (line 59).
RequestOf(accountType, searchQuery) ==
    IF IsSearch(searchQuery) THEN <<"search", searchQuery>>
    ELSE IF accountType # "none" THEN <<"type", accountType>>
    ELSE <<"nothing">>

\* The list a successful response to that request gives (lines 112-117,
\* 129-131).
AccountsOf(request) == <<request>>

InitAccounts ==
    /\ TreeIdle
    /\ ClassIdle
    /\ FetchIdle
    /\ AmountIdle
    /\ ExtractIdle
    /\ HeapIdle
    /\ DataIdle
    /\ PageIdle
    /\ aType \in AccountKinds \cup {"none"}
    /\ aSearch \in Queries
    /\ aAccounts = <<>>
    /\ aLoading = FALSE
    /\ aError = "null"
    /\ aIsSearching = FALSE
    /\ aCache = {}
    /\ aDebounce = <<>>
    /\ aLatestSearch = <<>>
    /\ aRuns = <<>>
    /\ aStarted = 0
    /\ acstage = "rendered"

\* fetchAccounts() up to its first await (lines 52-86, 120), called from a
\* render with the given accountType and search, loading being as given
\* before the call.
CallFetchAccounts(accountType, searchQuery, loading) ==
    /\ aLatestSearch' = searchQuery
    /\ IF accountType = "none" /\ ~IsSearch(searchQuery)
       THEN /\ aAccounts' = <<>>
            /\ aIsSearching' = FALSE
            /\ aLoading' = loading
            /\ UNCHANGED <<aError, aRuns>>
       ELSE IF ~IsSearch(searchQuery) /\ accountType \in aCache
       THEN /\ aAccounts' = AccountsOf(<<"type", accountType>>)
            /\ aIsSearching' = FALSE
            /\ aLoading' = loading
            /\ UNCHANGED <<aError, aRuns>>
       ELSE /\ aLoading' = TRUE
            /\ aError' = "null"
            /\ aIsSearching' = IsSearch(searchQuery)
            /\ aRuns' = Append(aRuns,
                   [accountType |-> accountType, searchQuery |-> searchQuery,
                    pc |-> IF IsSearch(searchQuery) THEN "token" ELSE "fetch"])
            /\ UNCHANGED aAccounts

\* The effect of lines 154-179 in a render with the given inputs; the
\* cleanup of the render before and line 157 clear the pending timer.
AccountsEffect(accountType, searchQuery) ==
    IF IsSearch(searchQuery)
    THEN /\ aLoading' = TRUE
         /\ aDebounce' = <<[accountType |-> accountType, searchQuery |-> searchQuery]>>
         /\ UNCHANGED <<aAccounts, aError, aIsSearching, aLatestSearch, aRuns>>
    ELSE /\ aDebounce' = <<>>
         /\ CallFetchAccounts(accountType, searchQuery, aLoading)

\* The first render and its effect.
AccountsMount ==
    /\ acstage = "rendered"
    /\ acstage' = "mounted"
    /\ AccountsEffect(aType, aSearch)
    /\ UNCHANGED <<aType, aSearch, aCache, aStarted>>
    /\ UNCHANGED <<treeVars, classVars, fetchVars, amountVars, extractVars, heapVars, dataVars, pageVars>>

\* A render with another account type or search, and its effect.
AccountsChangeInputs ==
    /\ acstage = "mounted"
    /\ aStarted < MaxStarts
    /\ \E accountType \in AccountKinds \cup {"none"}, searchQuery \in Queries :
          /\ <<accountType, searchQuery>> # <<aType, aSearch>>
          /\ aType' = accountType
          /\ aSearch' = searchQuery
          /\ AccountsEffect(accountType, searchQuery)
    /\ aStarted' = aStarted + 1
    /\ UNCHANGED <<aCache, acstage>>
    /\ UNCHANGED <<treeVars, classVars, fetchVars, amountVars, extractVars, heapVars, dataVars, pageVars>>

\* The timer of line 166 fires after SEARCH_DEBOUNCE_MS: fetchAccounts of
\* the render that set it.
DebounceFires ==
    /\ aDebounce # <<>>
    /\ aDebounce' = <<>>
    /\ CallFetchAccounts(aDebounce[1].accountType, aDebounce[1].searchQuery, aLoading)
    /\ UNCHANGED <<aType, aSearch, aCache, aStarted, acstage>>
    /\ UNCHANGED <<treeVars, classVars, fetchVars, amountVars, extractVars, heapVars, dataVars, pageVars>>

\* refetch(): fetchAccounts of the current render.
AccountsRefetch ==
    /\ acstage = "mounted"
    /\ aStarted < MaxStarts
    /\ CallFetchAccounts(aType, aSearch, aLoading)
    /\ aStarted' = aStarted + 1
    /\ UNCHANGED <<aType, aSearch, aCache, aDebounce, acstage>>
    /\ UNCHANGED <<treeVars, classVars, fetchVars, amountVars, extractVars, heapVars, dataVars, pageVars>>

\* The finally block of lines 145-150 for call k.
FinallyLoading(k) ==
    aLoading' = IF aLatestSearch = aRuns[k].searchQuery THEN FALSE ELSE aLoading

\* Call k ends in the catch block (lines 139-150).
EndWithError(k, message) ==
    /\ IF aLatestSearch = aRuns[k].searchQuery
       THEN /\ aError' = message
            /\ aAccounts' = <<>>
       ELSE UNCHANGED <<aError, aAccounts>>
    /\ FinallyLoading(k)
    /\ aRuns' = RemoveAt(aRuns, k)
    /\ UNCHANGED aCache

\* Call k ends after res.json() (lines 105-138, 145-150).
EndWithAccounts(k) ==
    /\ IF IsSearch(aRuns[k].searchQuery)
       THEN /\ aAccounts' = IF aLatestSearch # aRuns[k].searchQuery
                            THEN aAccounts
                            ELSE AccountsOf(<<"search", aRuns[k].searchQuery>>)
            /\ UNCHANGED aCache
       ELSE /\ aAccounts' = AccountsOf(<<"type", aRuns[k].accountType>>)
            /\ aCache' = aCache \cup {aRuns[k].accountType}
    /\ FinallyLoading(k)
    /\ aRuns' = RemoveAt(aRuns, k)
    /\ UNCHANGED aError

\* getToken() of line 86 settles.
TokenSettles ==
    /\ \E k \in 1..Len(aRuns) :
          /\ aRuns[k].pc = "token"
          /\ \E outcome \in {"token", "rejected"} :
                IF outcome = "token"
                THEN /\ aRuns' = [aRuns EXCEPT ![k].pc = "fetch"]
                     /\ UNCHANGED <<aAccounts, aLoading, aError, aCache>>
                ELSE EndWithError(k, "Unknown error")
    /\ UNCHANGED <<aType, aSearch, aIsSearching, aDebounce, aLatestSearch, aStarted, acstage>>
    /\ UNCHANGED <<treeVars, classVars, fetchVars, amountVars, extractVars, heapVars, dataVars, pageVars>>

\* The fetch of line 97 or line 120 settles.
AccountsFetchSettles ==
    /\ \E k \in 1..Len(aRuns) :
          /\ aRuns[k].pc = "fetch"
          /\ \E outcome \in {"ok", "notOk", "rejected"} :
                CASE outcome = "ok" ->
                        /\ aRuns' = [aRuns EXCEPT ![k].pc = "json"]
                        /\ UNCHANGED <<aAccounts, aLoading, aError, aCache>>
                  [] outcome = "notOk" ->
                        EndWithError(k, IF IsSearch(aRuns[k].searchQuery)
                                        THEN "Search failed"
                                        ELSE "Failed to fetch accounts")
                  [] outcome = "rejected" -> EndWithError(k, "Unknown error")
    /\ UNCHANGED <<aType, aSearch, aIsSearching, aDebounce, aLatestSearch, aStarted, acstage>>
    /\ UNCHANGED <<treeVars, classVars, fetchVars, amountVars, extractVars, heapVars, dataVars, pageVars>>

\* res.json() of line 105 or line 128 settles.
AccountsJsonSettles ==
    /\ \E k \in 1..Len(aRuns) :
          /\ aRuns[k].pc = "json"
          /\ \E outcome \in {"ok", "rejected"} :
                IF outcome = "ok"
                THEN EndWithAccounts(k)
                ELSE EndWithError(k, "Unknown error")
    /\ UNCHANGED <<aType, aSearch, aIsSearching, aDebounce, aLatestSearch, aStarted, acstage>>
    /\ UNCHANGED <<treeVars, classVars, fetchVars, amountVars, extractVars, heapVars, dataVars, pageVars>>

NextAccounts ==
    \/ AccountsMount
    \/ AccountsChangeInputs
    \/ DebounceFires
    \/ AccountsRefetch
    \/ TokenSettles
    \/ AccountsFetchSettles
    \/ AccountsJsonSettles

SpecAccounts == InitAccounts /\ [][NextAccounts]_vars

-----------------------------------------------------------------------------
(* Claims about useAccounts, checked under SpecAccounts *)

\* A call that ends in this step and asked for something else than the
\* current render asks for.
StaleCallEnds(k) ==
    /\ aRuns' = RemoveAt(aRuns, k)
    /\ RequestOf(aRuns[k].accountType, aRuns[k].searchQuery) # RequestOf(aType, aSearch)

\* C29 as claimed: when a call of fetchAccounts ends whose request is not
\* the one of the current account type and search, the accounts list, the
\* error and the loading flag stay as they are.
C29_StaleResponsesIgnored ==
    [][ \A k \in 1..Len(aRuns) :
           StaleCallEnds(k) =>
              /\ aAccounts' = aAccounts
              /\ aError' = aError
              /\ aLoading' = aLoading ]_vars

\* A reachable state: the list of account type A is shown for account type
\* B with no call waiting.
StaleListStays ==
    /\ aType = "B"
    /\ ~IsSearch(aSearch)
    /\ aRuns = <<>>
    /\ aAccounts = AccountsOf(<<"type", "A">>)

-----------------------------------------------------------------------------
(* Specification SpecPage: the selection state of ExplorerContent           *)
(* (src/src/app/page.tsx).  The views are those useViews returned; an       *)
(* account of a view carries the account type it was added with, if any    *)
(* (handleAddToView, lines 181-187).                                        *)

\* How many pages the list may have.
MaxPages == 2

PagePubkeys == {"P", "Q", "R"}

\* A view whose account P was added from the list of type A and whose
\* account Q was added without a type (from search results), and an empty
\* view.
SomeViews ==
    << [id |-> "v1", accounts |-> << [pubkey |-> "P", type |-> "A"],
                                     [pubkey |-> "Q", type |-> "undefined"] >>],
       [id |-> "v2", accounts |-> <<>>] >>

ViewIds(views) == {views[i].id : i \in 1..Len(views)}

\* useProgram and useViews give their results; the state is that of the
\* useState calls of lines 25-29.
InitPage ==
    /\ TreeIdle
    /\ ClassIdle
    /\ FetchIdle
    /\ AmountIdle
    /\ ExtractIdle
    /\ HeapIdle
    /\ DataIdle
    /\ AccountsIdle
    /\ pSelectedAccountType = "null"
    /\ pSelectedPubkey = "null"
    /\ pSelectedViewId = "null"
    /\ pSearchQuery = <<>>
    /\ pCurrentPage = 1
    /\ pViews \in {<<>>, SomeViews}
    /\ pstage = "shown"

\* views.find((v) => v.id === selectedViewId) || null (lines 62-64).
SelectedView ==
    LET found == {i \in 1..Len(pViews) : pViews[i].id = pSelectedViewId}
    IN  IF found = {} THEN <<>> ELSE <<pViews[CHOOSE i \in found : \A j \in found : i <= j]>>

\* The pubkeys of the list AccountList is given (lines 68-98): those of the
\* selected view, or whatever useAccounts fetched.
ListedPubkeys ==
    IF ~IsSearch(pSearchQuery) /\ pSelectedViewId # "null" /\ SelectedView # <<>>
    THEN {SelectedView[1].accounts[i].pubkey : i \in 1..Len(SelectedView[1].accounts)}
    ELSE PagePubkeys

\* selectedView.accounts?.find((a) => a.pubkey === pubkey)?.type (lines
\* 163-164), "undefined" when there is none.
ViewAccountType(view, pubkey) ==
    LET found == {i \in 1..Len(view.accounts) : view.accounts[i].pubkey = pubkey}
    IN  IF found = {} THEN "undefined" ELSE view.accounts[CHOOSE i \in found : \A j \in found : i <= j].type

\* Lines 140-146.
HandleSelectAccountType ==
    /\ pstage = "shown"
    /\ \E type \in AccountKinds : pSelectedAccountType' = type
    /\ pSelectedViewId' = "null"
    /\ pSelectedPubkey' = "null"
    /\ pSearchQuery' = <<>>
    /\ pCurrentPage' = 1
    /\ UNCHANGED <<pViews, pstage>>
    /\ UNCHANGED <<treeVars, classVars, fetchVars, amountVars, extractVars, heapVars, dataVars, accountsVars>>

\* Lines 149-155: the sidebar calls it with the id of one of the views.
HandleSelectView ==
    /\ pstage = "shown"
    /\ \E viewId \in ViewIds(pViews) \cup {"null"} : pSelectedViewId' = viewId
    /\ pSelectedAccountType' = "null"
    /\ pSelectedPubkey' = "null"
    /\ pSearchQuery' = <<>>
    /\ pCurrentPage' = 1
    /\ UNCHANGED <<pViews, pstage>>
    /\ UNCHANGED <<treeVars, classVars, fetchVars, amountVars, extractVars, heapVars, dataVars, accountsVars>>

\* The account type handleSelectAccount leaves (lines 162-167).
TypeAfterSelectAccount(pubkey) ==
    IF pSelectedAccountType = "null" /\ SelectedView # <<>>
          /\ ViewAccountType(SelectedView[1], pubkey) # "undefined"
    THEN ViewAccountType(SelectedView[1], pubkey)
    ELSE pSelectedAccountType

\* Lines 158-168: the list calls it with the pubkey of one of its rows.
HandleSelectAccount ==
    /\ pstage = "shown"
    /\ \E pubkey \in ListedPubkeys :
          /\ pSelectedPubkey' = pubkey
          /\ pSelectedAccountType' = TypeAfterSelectAccount(pubkey)
    /\ UNCHANGED <<pSelectedViewId, pSearchQuery, pCurrentPage, pViews, pstage>>
    /\ UNCHANGED <<treeVars, classVars, fetchVars, amountVars, extractVars, heapVars, dataVars, accountsVars>>

\* Lines 199-202.
HandleSearchChange ==
    /\ pstage = "shown"
    /\ \E query \in Queries : pSearchQuery' = query
    /\ pCurrentPage' = 1
    /\ UNCHANGED <<pSelectedAccountType, pSelectedPubkey, pSelectedViewId, pViews, pstage>>
    /\ UNCHANGED <<treeVars, classVars, fetchVars, amountVars, extractVars, heapVars, dataVars, accountsVars>>

\* Lines 133-137, the list having totalPages pages.
HandlePageChange ==
    /\ pstage = "shown"
    /\ \E totalPages \in 1..MaxPages, page \in 0..(MaxPages + 1) :
          pCurrentPage' = IF page >= 1 /\ page <= totalPages THEN page ELSE pCurrentPage
    /\ UNCHANGED <<pSelectedAccountType, pSelectedPubkey, pSelectedViewId, pSearchQuery, pViews, pstage>>
    /\ UNCHANGED <<treeVars, classVars, fetchVars, amountVars, extractVars, heapVars, dataVars, accountsVars>>

NextPage ==
    \/ HandleSelectAccountType
    \/ HandleSelectView
    \/ HandleSelectAccount
    \/ HandleSearchChange
    \/ HandlePageChange

SpecPage == InitPage /\ [][NextPage]_vars

-----------------------------------------------------------------------------
(* Claims about the page, checked under SpecPage *)

\* C30 as claimed: selectedAccountType and selectedViewId are never both
\* non-null.
C30_TypeAndViewExclusive ==
    ~(pSelectedAccountType # "null" /\ pSelectedViewId # "null")

=============================================================================
